---- MODULE Spec2Model ----
(***************************************************************************)
(* The privacy filter of the social-media publisher (PrivacyFilter):       *)
(* pattern detection, the optional OpenAI detector, redaction, risk        *)
(* aggregation, suggestions and the gated filterContent entry point.       *)
(* A text is a sequence of one-character strings, indexed from 1; a        *)
(* JavaScript position p is index p + 1.                                   *)
(***************************************************************************)
EXTENDS Integers, Sequences, FiniteSets, TLC

\* ------------------------------------------------------------------ bounds
\* A content is the concatenation of at most MaxFrags fragments of Fragments.
MaxFrags == 2
\* The oracle's response holds at most MaxAIEntries entries over its buckets.
MaxAIEntries == 2

\* ------------------------------------------------------- character classes
Digit == {"0","1","2","3","4","5","6","7","8","9"}
LowerSeq == <<"a","b","c","d","e","f","g","h","i","j","k","l","m","n","o","p","q","r","s","t","u","v","w","x","y","z">>
UpperSeq == <<"A","B","C","D","E","F","G","H","I","J","K","L","M","N","O","P","Q","R","S","T","U","V","W","X","Y","Z">>
Lower == {LowerSeq[k] : k \in 1..26}
Upper == {UpperSeq[k] : k \in 1..26}
Alpha == Lower \cup Upper
AlNum == Alpha \cup Digit
\* \w and \s of the regular expressions
WordCh == AlNum \cup {"_"}
SpaceCh == {" ", "\t", "\n"}
\* the two cases of a character, for the patterns compiled with the i flag
CaseFold(c) ==
  IF c \in Lower THEN {c, UpperSeq[CHOOSE k \in 1..26 : LowerSeq[k] = c]}
  ELSE IF c \in Upper THEN {c, LowerSeq[CHOOSE k \in 1..26 : UpperSeq[k] = c]}
  ELSE {c}

\* ------------------------------------------------- regular expressions
\* A pattern is a tree: one character of a set, a concatenation, an ordered
\* alternation, a greedy repetition of lo to hi times (or lo times and more),
\* or \b.
Set(cs) == [t |-> "set", cs |-> cs]
Cat(rs) == [t |-> "cat", rs |-> rs]
Alt(rs) == [t |-> "alt", rs |-> rs]
Rep(r, lo, hi) == [t |-> "rep", r |-> r, lo |-> lo, hi |-> hi, more |-> FALSE]
AtLeast(r, lo) == [t |-> "rep", r |-> r, lo |-> lo, hi |-> lo, more |-> TRUE]
WordB == [t |-> "wb"]
Opt(r) == Rep(r, 0, 1)
Plus(r) == AtLeast(r, 1)
Star(r) == AtLeast(r, 0)
Ch(c) == Set({c})
\* a literal word, and the same under the i flag
Lit(w) == Cat([k \in 1..Len(w) |-> Set({w[k]})])
LitI(w) == Cat([k \in 1..Len(w) |-> Set(CaseFold(w[k]))])

IsWordAt(s, i) == i >= 1 /\ i <= Len(s) /\ s[i] \in WordCh

Range(q) == {q[k] : k \in 1..Len(q)}
\* acc followed by the elements of xs it does not hold yet
AppendNew(acc, xs) == acc \o SelectSeq(xs, LAMBDA x : x \notin Range(acc))
\* the length of the longest run of characters of cs that starts at index i
RunLen(cs, s, i) ==
  CHOOSE n \in 0..(Len(s) + 1 - i) :
    /\ \A k \in 0..(n - 1) : s[i + k] \in cs
    /\ (i + n > Len(s) \/ s[i + n] \notin cs)
Min(a, b) == IF a < b THEN a ELSE b
Max(a, b) == IF a > b THEN a ELSE b

\* Ends(r, s, i): the indexes at which a match of r that starts at index i of
\* s can end (one past its last character), in the order a backtracking
\* matcher tries them; the head is the match the engine reports.
RECURSIVE Ends(_, _, _), EndsFrom(_, _, _), EndsCat(_, _, _, _), EndsAlt(_, _, _, _), EndsRep(_, _, _, _), RepFrom(_, _, _, _)
Ends(r, s, i) ==
  CASE r.t = "set" -> IF i <= Len(s) /\ s[i] \in r.cs THEN <<i + 1>> ELSE <<>>
    [] r.t = "wb"  -> IF IsWordAt(s, i - 1) # IsWordAt(s, i) THEN <<i>> ELSE <<>>
    [] r.t = "cat" -> EndsCat(r.rs, 1, s, <<i>>)
    [] r.t = "alt" -> EndsAlt(r.rs, 1, s, i)
    [] r.t = "rep" ->
         IF r.r.t = "set"
         THEN \* a greedy run of one character class: longest first
              LET run == RunLen(r.r.cs, s, i)
                  top == IF r.more THEN run ELSE Min(run, r.hi)
              IN IF top < r.lo THEN <<>>
                 ELSE [k \in 1..(top - r.lo + 1) |-> i + top + 1 - k]
         ELSE EndsRep(r, s, i, 0)
EndsCat(rs, k, s, starts) ==
  IF k > Len(rs) \/ starts = <<>> THEN starts
  ELSE EndsCat(rs, k + 1, s, EndsFrom(rs[k], s, starts))
\* the ends of r from starts[1], then from starts[2], ...: first occurrences
EndsFrom(r, s, starts) ==
  IF starts = <<>> THEN <<>>
  ELSE IF Len(starts) = 1 THEN Ends(r, s, starts[1])
  ELSE LET h == Len(starts) \div 2
       IN AppendNew(EndsFrom(r, s, SubSeq(starts, 1, h)),
                    EndsFrom(r, s, SubSeq(starts, h + 1, Len(starts))))
EndsAlt(rs, k, s, i) ==
  IF k > Len(rs) THEN <<>>
  ELSE AppendNew(Ends(rs[k], s, i), EndsAlt(rs, k + 1, s, i))
\* n iterations done: one more iteration first (greedy), then stopping here
EndsRep(r, s, i, n) ==
  LET more == IF r.more \/ n < r.hi
              THEN RepFrom(r, s, SelectSeq(Ends(r.r, s, i), LAMBDA e : e > i), n + 1)
              ELSE <<>>
  IN AppendNew(more, IF n >= r.lo THEN <<i>> ELSE <<>>)
RepFrom(r, s, starts, n) ==
  IF starts = <<>> THEN <<>>
  ELSE IF Len(starts) = 1 THEN EndsRep(r, s, starts[1], n)
  ELSE LET h == Len(starts) \div 2
       IN AppendNew(RepFrom(r, s, SubSeq(starts, 1, h), n),
                    RepFrom(r, s, SubSeq(starts, h + 1, Len(starts)), n))

\* String.prototype.match with a g-flag pattern: the matched substrings, left
\* to right, each search resuming where the previous match ended.
FirstEnd(r, s, i) == LET es == Ends(r, s, i) IN IF es = <<>> THEN 0 ELSE es[1]
RECURSIVE MatchFrom(_, _, _)
MatchFrom(ends, s, i) ==
  LET hits == {j \in i..(Len(s) + 1) : ends[j] > j}
  IN IF hits = {} THEN <<>>
     ELSE LET j == CHOOSE h \in hits : \A g \in hits : h <= g
          IN <<SubSeq(s, j, ends[j] - 1)>> \o MatchFrom(ends, s, ends[j])
MatchAll(r, s) == MatchFrom([i \in 1..(Len(s) + 1) |-> FirstEnd(r, s, i)], s, 1)

\* ------------------------------------------------------------- patterns
Sep == Set({"-", ".", " ", "\t", "\n"})
CardSep == Set({"-", " ", "\t", "\n"})
D == Set(Digit)
P_email ==
  Cat(<<WordB, Plus(Set(AlNum \cup {".", "_", "%", "+", "-"})), Ch("@"),
        Plus(Set(AlNum \cup {".", "-"})), Ch("."), AtLeast(Set(Alpha \cup {"|"}), 2), WordB>>)
P_phone ==
  Cat(<<Opt(Cat(<<Opt(Ch("+")), Ch("1"), Opt(Sep)>>)), Opt(Ch("(")), Rep(D, 3, 3), Opt(Ch(")")),
        Opt(Sep), Rep(D, 3, 3), Opt(Sep), Rep(D, 4, 4)>>)
P_ssn == Cat(<<WordB, Rep(D, 3, 3), Ch("-"), Rep(D, 2, 2), Ch("-"), Rep(D, 4, 4), WordB>>)
P_creditCard ==
  Cat(<<WordB, Rep(D, 4, 4), Opt(CardSep), Rep(D, 4, 4), Opt(CardSep), Rep(D, 4, 4),
        Opt(CardSep), Rep(D, 4, 4), WordB>>)
P_bankAccount == Cat(<<WordB, Rep(D, 8, 17), WordB>>)
P_routingNumber == Cat(<<WordB, Rep(D, 9, 9), WordB>>)
P_currency ==
  Cat(<<Ch("$"), Plus(Set(Digit \cup {","})), Opt(Cat(<<Ch("."), Rep(D, 2, 2)>>))>>)
StreetWords ==
  <<<<"s","t","r","e","e","t">>, <<"s","t">>, <<"a","v","e","n","u","e">>, <<"a","v","e">>, <<"r","o","a","d">>, <<"r","d">>, <<"d","r","i","v","e">>, <<"d","r">>, <<"l","a","n","e">>,
    <<"l","n">>, <<"b","o","u","l","e","v","a","r","d">>, <<"b","l","v","d">>, <<"w","a","y">>, <<"c","o","u","r","t">>, <<"c","t">>, <<"p","l","a","c","e">>, <<"p","l">>>>
AddrCh == Set(AlNum \cup SpaceCh \cup {","})
P_address ==
  Cat(<<WordB, Plus(D), Plus(Set(SpaceCh)), Plus(AddrCh),
        Alt([k \in 1..Len(StreetWords) |-> LitI(StreetWords[k])]),
        Star(Cat(<<Plus(Set(SpaceCh)), Plus(AddrCh)>>)), WordB>>)
P_zipCode == Cat(<<WordB, Rep(D, 5, 5), Opt(Cat(<<Ch("-"), Rep(D, 4, 4)>>)), WordB>>)
P_coordinates ==
  Cat(<<WordB, Opt(Ch("-")), Rep(D, 1, 3), Ch("."), Plus(D), Ch(","), Star(Set(SpaceCh)),
        Opt(Ch("-")), Rep(D, 1, 3), Ch("."), Plus(D), WordB>>)
P_ipAddress == Cat(<<WordB, Rep(Cat(<<Rep(D, 1, 3), Ch(".")>>), 3, 3), Rep(D, 1, 3), WordB>>)
P_apiKey == Cat(<<WordB, AtLeast(Set(AlNum), 20), WordB>>)

companyIndicators ==
  <<<<"I","n","c">>, <<"L","L","C">>, <<"C","o","r","p">>, <<"C","o","r","p","o","r","a","t","i","o","n">>, <<"C","o","m","p","a","n","y">>, <<"C","o">>, <<"L","t","d">>, <<"L","i","m","i","t","e","d">>,
    <<"P","a","r","t","n","e","r","s">>, <<"A","s","s","o","c","i","a","t","e","s">>, <<"G","r","o","u","p">>, <<"H","o","l","d","i","n","g","s">>, <<"E","n","t","e","r","p","r","i","s","e","s">>, <<"S","o","l","u","t","i","o","n","s">>,
    <<"T","e","c","h","n","o","l","o","g","i","e","s">>, <<"T","e","c","h">>, <<"S","y","s","t","e","m","s">>, <<"S","e","r","v","i","c","e","s">>, <<"C","o","n","s","u","l","t","i","n","g">>>>
companyPattern ==
  Cat(<<WordB, Plus(Set(WordCh)), Plus(Set(SpaceCh)),
        Alt([k \in 1..Len(companyIndicators) |-> LitI(companyIndicators[k])]), WordB>>)
LocTriggers == <<<<"l","o","c","a","t","e","d">>, <<"b","a","s","e","d">>, <<"o","f","f","i","c","e">>, <<"h","e","a","d","q","u","a","r","t","e","r","s">>, <<"b","u","i","l","d","i","n","g">>>>
LocPreps == <<<<"a","t">>, <<"i","n">>, <<"n","e","a","r">>>>
\* [A-Z][a-z]+ under the i flag: two or more letters of either case
CapWordI == Cat(<<Set(Alpha), Plus(Set(Alpha))>>)
locationPattern ==
  Cat(<<WordB, Alt([k \in 1..Len(LocTriggers) |-> LitI(LocTriggers[k])]), Plus(Set(SpaceCh)),
        Alt([k \in 1..Len(LocPreps) |-> LitI(LocPreps[k])]), Plus(Set(SpaceCh)),
        CapWordI, Star(Cat(<<Plus(Set(SpaceCh)), CapWordI>>)), WordB>>)


\* ------------------------------------------------------------ JavaScript
\* null: the only value here that is not a string. String(null) is "null";
\* reading a property of it (match, length) throws a TypeError.
JsNull == <<"null">>
ToStr(v) == IF v = JsNull THEN <<"n","u","l","l">> ELSE v
\* String.prototype.substring(from, to): both clamped to 0..length
Substring(s, from, to) ==
  SubSeq(s, Max(0, Min(from, Len(s))) + 1, Max(0, Min(to, Len(s))))
\* indexOf counting positions from 1: an off-by-one of the position
IndexOfFromOne(s, v) ==
  LET w == ToStr(v)
      hits == {p \in 0..(Len(s) - Len(w)) : SubSeq(s, p + 1, p + Len(w)) = w}
  IN IF hits = {} THEN -1 ELSE 1 + CHOOSE p \in hits : \A q \in hits : p <= q
\* the position of the last occurrence
IndexOfLast(s, v) ==
  LET w == ToStr(v)
      hits == {p \in 0..(Len(s) - Len(w)) : SubSeq(s, p + 1, p + Len(w)) = w}
  IN IF hits = {} THEN -1 ELSE CHOOSE p \in hits : \A q \in hits : q <= p
\* String.prototype.indexOf: the position of the first occurrence, or -1
IndexOf(s, v) ==
  LET w == ToStr(v)
      hits == {p \in 0..(Len(s) - Len(w)) : SubSeq(s, p + 1, p + Len(w)) = w}
  IN IF hits = {} THEN -1 ELSE CHOOSE p \in hits : \A q \in hits : p <= q
\* the elements of q at the indexes K, in index order
Pick(q, K) ==
  [n \in 1..Cardinality(K) |-> q[CHOOSE k \in K : Cardinality({j \in K : j < k}) = n - 1]]
\* [...new Set(q)]: first occurrences, in order
Distinct(q) == Pick(q, {k \in 1..Len(q) : \A j \in 1..(k - 1) : q[j] # q[k]})

\* -------------------------------------------------------- PrivacyFilter
riskLevels == [HIGH |-> "high", MEDIUM |-> "medium", LOW |-> "low"]

Issue(type, value, riskLevel, content, method) ==
  [type |-> type, value |-> value, riskLevel |-> riskLevel,
   position |-> IndexOf(content, value), detectionMethod |-> method]

detectAndAdd(content, pattern, type, riskLevel) ==
  LET matches == MatchAll(pattern, content)
  IN [k \in 1..Len(matches) |-> Issue(type, matches[k], riskLevel, content, "pattern")]
detectCompanyNames(content) == detectAndAdd(content, companyPattern, "companyName", "MEDIUM")
detectLocationContext(content) ==
  detectAndAdd(content, locationPattern, "locationContext", "MEDIUM")
\* the issues pushed by detectPatternBasedIssues, in the order of its calls
detectPatternBasedIssues(content) ==
     detectAndAdd(content, P_email, "email", "HIGH")
  \o detectAndAdd(content, P_phone, "phone", "HIGH")
  \o detectAndAdd(content, P_ssn, "ssn", "HIGH")
  \o detectAndAdd(content, P_creditCard, "creditCard", "HIGH")
  \o detectAndAdd(content, P_bankAccount, "bankAccount", "HIGH")
  \o detectAndAdd(content, P_routingNumber, "routingNumber", "HIGH")
  \o detectAndAdd(content, P_currency, "currency", "MEDIUM")
  \o detectAndAdd(content, P_address, "address", "MEDIUM")
  \o detectAndAdd(content, P_zipCode, "zipCode", "MEDIUM")
  \o detectAndAdd(content, P_coordinates, "coordinates", "HIGH")
  \o detectAndAdd(content, P_ipAddress, "ipAddress", "MEDIUM")
  \o detectAndAdd(content, P_apiKey, "apiKey", "HIGH")
  \o detectCompanyNames(content)
  \o detectLocationContext(content)

\* The oracle's parsed response: five buckets, each absent, a list of values,
\* or something that is no list (a truthy value without forEach).
Buckets == <<"personalNames", "companyNames", "financialInfo", "locations", "confidentialInfo">>
BucketType ==
  [personalNames |-> "personalName", companyNames |-> "companyName",
   financialInfo |-> "financialInfo", locations |-> "location",
   confidentialInfo |-> "confidentialInfo"]
\* every bucket of the oracle taken as HIGH
BucketRiskAllHigh ==
  [personalNames |-> "HIGH", companyNames |-> "HIGH", financialInfo |-> "HIGH",
   locations |-> "HIGH", confidentialInfo |-> "HIGH"]
BucketRisk ==
  [personalNames |-> "HIGH", companyNames |-> "MEDIUM", financialInfo |-> "HIGH",
   locations |-> "MEDIUM", confidentialInfo |-> "HIGH"]
AbsentBucket == [kind |-> "absent", items |-> <<>>]
NotAList == [kind |-> "notlist", items |-> <<>>]
ListBucket(items) == [kind |-> "list", items |-> items]

\* addAIDetectedIssues from bucket b on: the issues pushed, and whether a
\* bucket that is no list made forEach throw (the issues pushed before it stay).
RECURSIVE addAIDetectedIssues(_, _, _)
addAIDetectedIssues(aiAnalysis, originalContent, b) ==
  IF b > Len(Buckets) THEN [issues |-> <<>>, threw |-> FALSE]
  ELSE LET name == Buckets[b]
           bucket == aiAnalysis[name]
       IN IF bucket.kind = "absent" THEN addAIDetectedIssues(aiAnalysis, originalContent, b + 1)
          ELSE IF bucket.kind = "notlist" THEN [issues |-> <<>>, threw |-> TRUE]
          ELSE LET rest == addAIDetectedIssues(aiAnalysis, originalContent, b + 1)
                   mine == [k \in 1..Len(bucket.items) |->
                              Issue(BucketType[name], bucket.items[k], BucketRisk[name],
                                    originalContent, "ai")]
               IN [issues |-> mine \o rest.issues, threw |-> rest.threw]

getReplacementText(issue) ==
  CASE issue.type = "email" -> <<"[","E","M","A","I","L","_","R","E","D","A","C","T","E","D","]">>
    [] issue.type = "phone" -> <<"[","P","H","O","N","E","_","R","E","D","A","C","T","E","D","]">>
    [] issue.type = "ssn" -> <<"[","S","S","N","_","R","E","D","A","C","T","E","D","]">>
    [] issue.type = "creditCard" -> <<"[","C","A","R","D","_","R","E","D","A","C","T","E","D","]">>
    [] issue.type = "bankAccount" -> <<"[","A","C","C","O","U","N","T","_","R","E","D","A","C","T","E","D","]">>
    [] issue.type = "routingNumber" -> <<"[","R","O","U","T","I","N","G","_","R","E","D","A","C","T","E","D","]">>
    [] issue.type = "currency" -> <<"[","A","M","O","U","N","T","_","R","E","D","A","C","T","E","D","]">>
    [] issue.type = "address" -> <<"[","A","D","D","R","E","S","S","_","R","E","D","A","C","T","E","D","]">>
    [] issue.type = "zipCode" -> <<"[","Z","I","P","_","R","E","D","A","C","T","E","D","]">>
    [] issue.type = "coordinates" -> <<"[","C","O","O","R","D","I","N","A","T","E","S","_","R","E","D","A","C","T","E","D","]">>
    [] issue.type = "ipAddress" -> <<"[","I","P","_","R","E","D","A","C","T","E","D","]">>
    [] issue.type = "apiKey" -> <<"[","A","P","I","_","K","E","Y","_","R","E","D","A","C","T","E","D","]">>
    [] issue.type = "personalName" -> <<"[","N","A","M","E","_","R","E","D","A","C","T","E","D","]">>
    [] issue.type = "companyName" -> <<"[","C","O","M","P","A","N","Y","_","R","E","D","A","C","T","E","D","]">>
    [] issue.type = "financialInfo" -> <<"[","F","I","N","A","N","C","I","A","L","_","I","N","F","O","_","R","E","D","A","C","T","E","D","]">>
    [] issue.type = "location" -> <<"[","L","O","C","A","T","I","O","N","_","R","E","D","A","C","T","E","D","]">>
    [] issue.type = "locationContext" -> <<"[","L","O","C","A","T","I","O","N","_","C","O","N","T","E","X","T","_","R","E","D","A","C","T","E","D","]">>
    [] issue.type = "confidentialInfo" -> <<"[","C","O","N","F","I","D","E","N","T","I","A","L","_","R","E","D","A","C","T","E","D","]">>
    [] OTHER -> <<"[","R","E","D","A","C","T","E","D","]">>

\* [...detectedIssues].sort((a, b) => b.position - a.position): descending
\* position, equal positions in their original order (the sort is stable)
SortIssues(detectedIssues) ==
  LET n == Len(detectedIssues)
      Rank(k) == Cardinality({j \in 1..n : detectedIssues[j].position > detectedIssues[k].position})
                 + Cardinality({j \in 1..(k - 1) : detectedIssues[j].position = detectedIssues[k].position})
  IN [m \in 1..n |-> detectedIssues[CHOOSE k \in 1..n : Rank(k) = m - 1]]

\* the guard dropped: every issue is applied, found in the text or not
AppliesAlways(issue) == TRUE
\* if (issue.position >= 0)
Applies(issue) == issue.position >= 0
\* substring(0, position) + replacement + substring(position + value.length)
Substitute(filteredContent, issue) ==
     Substring(filteredContent, 0, issue.position)
  \o getReplacementText(issue)
  \o Substring(filteredContent, issue.position + Len(issue.value), Len(filteredContent))
\* applyFilters on issues whose values are strings: the text it returns
RECURSIVE ApplyFrom(_, _, _)
ApplyFrom(text, sorted, k) ==
  IF k > Len(sorted) THEN text
  ELSE ApplyFrom(IF Applies(sorted[k]) THEN Substitute(text, sorted[k]) ELSE text, sorted, k + 1)
applyFilters(content, detectedIssues) == ApplyFrom(content, SortIssues(detectedIssues), 1)

\* a map that keeps the first value set for a key
MapSetKeepsFirst(map, key, value) ==
  IF \E k \in 1..Len(map) : map[k].key = key THEN map
  ELSE Append(map, [key |-> key, value |-> value])
\* anonymizationMap.set(key, value) on a Map kept as its entries in order
MapSet(map, key, value) ==
  IF \E k \in 1..Len(map) : map[k].key = key
  THEN [k \in 1..Len(map) |-> IF map[k].key = key THEN [key |-> key, value |-> value] ELSE map[k]]
  ELSE Append(map, [key |-> key, value |-> value])

\* the second test dropped: several MEDIUM issues stay MEDIUM
calculateRiskLevelNoEscalation(detectedIssues) ==
  LET highRiskCount == Cardinality({k \in 1..Len(detectedIssues) : detectedIssues[k].riskLevel = "HIGH"})
      mediumRiskCount == Cardinality({k \in 1..Len(detectedIssues) : detectedIssues[k].riskLevel = "MEDIUM"})
  IN IF highRiskCount > 0 THEN riskLevels.HIGH
     ELSE IF mediumRiskCount > 0 THEN riskLevels.MEDIUM
     ELSE riskLevels.LOW
\* the last test written >= 0: no issue at all is MEDIUM
calculateRiskLevelOffByOne(detectedIssues) ==
  LET highRiskCount == Cardinality({k \in 1..Len(detectedIssues) : detectedIssues[k].riskLevel = "HIGH"})
      mediumRiskCount == Cardinality({k \in 1..Len(detectedIssues) : detectedIssues[k].riskLevel = "MEDIUM"})
  IN IF highRiskCount > 0 THEN riskLevels.HIGH
     ELSE IF mediumRiskCount > 1 THEN riskLevels.HIGH
     ELSE IF mediumRiskCount >= 0 THEN riskLevels.MEDIUM
     ELSE riskLevels.LOW
calculateRiskLevel(detectedIssues) ==
  LET highRiskCount == Cardinality({k \in 1..Len(detectedIssues) : detectedIssues[k].riskLevel = "HIGH"})
      mediumRiskCount == Cardinality({k \in 1..Len(detectedIssues) : detectedIssues[k].riskLevel = "MEDIUM"})
  IN IF highRiskCount > 0 THEN riskLevels.HIGH
     ELSE IF mediumRiskCount > 1 THEN riskLevels.HIGH
     ELSE IF mediumRiskCount > 0 THEN riskLevels.MEDIUM
     ELSE riskLevels.LOW

suggestionMap ==
  [email |-> "Consider using a generic contact form instead of exposing email addresses",
   phone |-> "Use a business phone number or contact form instead of personal numbers",
   ssn |-> "Never share Social Security Numbers publicly",
   creditCard |-> "Remove all payment card information from public posts",
   bankAccount |-> "Banking details should never be shared publicly",
   personalName |-> "Consider using first names only or role titles instead of full names",
   companyName |-> "Evaluate if specific company names need to be mentioned publicly",
   financialInfo |-> "Remove specific financial figures or use ranges instead",
   location |-> "Consider using city/state instead of specific addresses",
   address |-> "Use general location references instead of specific addresses",
   confidentialInfo |-> "Remove any internal or confidential project information",
   coordinates |-> "Remove GPS coordinates and location data",
   ipAddress |-> "Remove IP addresses and technical identifiers",
   apiKey |-> "Never expose API keys or authentication tokens"]
HighWarnings ==
  <<"HIGH RISK: This content contains sensitive information that should not be posted publicly",
    "Consider rewriting the content to remove all personal identifiers">>
MediumWarnings ==
  <<"MEDIUM RISK: Review the content for potentially sensitive information",
    "Consider using more general terms instead of specific details">>
\* the general warnings pushed before the advice of the types
generateSuggestionsWarningsFirst(detectedIssues, riskLevel) ==
  LET issueTypes == Distinct([k \in 1..Len(detectedIssues) |-> detectedIssues[k].type])
      known == SelectSeq(issueTypes, LAMBDA type : type \in DOMAIN suggestionMap)
      advice == [k \in 1..Len(known) |-> suggestionMap[known[k]]]
      general == IF riskLevel = riskLevels.HIGH THEN HighWarnings
                 ELSE IF riskLevel = riskLevels.MEDIUM THEN MediumWarnings
                 ELSE <<>>
  IN Distinct(general \o advice)
generateSuggestions(detectedIssues, riskLevel) ==
  LET issueTypes == Distinct([k \in 1..Len(detectedIssues) |-> detectedIssues[k].type])
      known == SelectSeq(issueTypes, LAMBDA type : type \in DOMAIN suggestionMap)
      advice == [k \in 1..Len(known) |-> suggestionMap[known[k]]]
      general == IF riskLevel = riskLevels.HIGH THEN HighWarnings
                 ELSE IF riskLevel = riskLevels.MEDIUM THEN MediumWarnings
                 ELSE <<>>
  IN Distinct(advice \o general)

\* ------------------------------------------------------------ publishers
\* The rate limiters are modelled with maxRequests and timeWindow scaled down
\* (the constructors set 300 per 15 minutes and 100 per 24 hours), and the
\* clock Date.now() in ticks up to MaxNow.
RateMaxRequests == 2
RateTimeWindow == 2
MaxNow == 4
Limiter == [requests |-> <<>>, maxRequests |-> RateMaxRequests, timeWindow |-> RateTimeWindow]

\* the filter with timestamps as old as the window kept
checkRateLimitKeepsEdge(limiter, t) ==
  LET kept == SelectSeq(limiter.requests, LAMBDA timestamp : t - timestamp <= limiter.timeWindow)
  IN IF Len(kept) >= limiter.maxRequests
     THEN [limiter |-> [limiter EXCEPT !.requests = kept], error |-> "Rate limit exceeded"]
     ELSE [limiter |-> [limiter EXCEPT !.requests = Append(kept, t)], error |-> "none"]
\* checkRateLimit on one limiter at time t: the limiter it leaves, and
\* whether it threw
checkRateLimit(limiter, t) ==
  LET kept == SelectSeq(limiter.requests, LAMBDA timestamp : t - timestamp < limiter.timeWindow)
  IN IF Len(kept) >= limiter.maxRequests
     THEN [limiter |-> [limiter EXCEPT !.requests = kept], error |-> "Rate limit exceeded"]
     ELSE [limiter |-> [limiter EXCEPT !.requests = Append(kept, t)], error |-> "none"]
\* TwitterPublisher.checkRateLimit(type): this.rateLimiter[type] is undefined
\* for a type the constructor did not create, and limiter.requests throws
twitterCheckRateLimit(rateLimiter, type, t) ==
  IF type \notin DOMAIN rateLimiter
  THEN [rateLimiter |-> rateLimiter, error |-> "TypeError"]
  ELSE LET checked == checkRateLimit(rateLimiter[type], t)
       IN [rateLimiter |-> [rateLimiter EXCEPT ![type] = checked.limiter], error |-> checked.error]

\* String.prototype.lastIndexOf(c, from), trim, and the decimal digits of n
LastIndexOf(s, c, from) ==
  LET top == Min(from, Len(s) - 1)
  IN IF \A k \in 0..top : s[k + 1] # c THEN -1
     ELSE CHOOSE k \in 0..top : s[k + 1] = c /\ \A j \in (k + 1)..top : s[j + 1] # c
\* the element of a set of one element: Only({F(x) : x \in {e}}) is F(e) with
\* e evaluated once
Only(S) == CHOOSE v \in S : TRUE
Trimmed(s) ==
  IF \A k \in 1..Len(s) : s[k] \in SpaceCh THEN <<>>
  ELSE SubSeq(s, CHOOSE k \in 1..Len(s) : s[k] \notin SpaceCh /\ \A j \in 1..(k - 1) : s[j] \in SpaceCh,
                 CHOOSE k \in 1..Len(s) : s[k] \notin SpaceCh /\ \A j \in (k + 1)..Len(s) : s[j] \in SpaceCh)
Trim(s) == Only({Trimmed(text) : text \in {s}})
DigitSeq == <<"0","1","2","3","4","5","6","7","8","9">>
RECURSIVE NumStr(_)
NumStr(n) == IF n < 10 THEN <<DigitSeq[n + 1]>> ELSE NumStr(n \div 10) \o <<DigitSeq[(n % 10) + 1]>>
Includes(s, v) == IndexOf(s, v) >= 0
StartsWith(s, c) == Len(s) > 0 /\ s[1] = c
RECURSIVE Join(_, _)
Join(parts, sep) ==
  IF parts = <<>> THEN <<>>
  ELSE IF Len(parts) = 1 THEN parts[1]
  ELSE parts[1] \o sep \o Join(Tail(parts), sep)
Repeat(unit, n) == [k \in 1..(n * Len(unit)) |-> unit[((k - 1) % Len(unit)) + 1]]

\* formatContent: hashtags and mentions when given, then the link to the
\* repository when it is not in the text and the text stays within 1000
\* characters. The emoji of the link is two UTF-16 code units.
repoUrl == <<"h","t","t","p","s",":","/","/","g","i","t","h","u","b",".","c","o","m","/","p","h","i","p","h","i","3","2","5","/","s","o","c","i","a","l","-","m","e","d","i","a","-","p","o","s","t">>
linkText == <<"\n","\n">> \o <<"hi", "lo">> \o <<" ","C","o","d","e",":"," ">> \o repoUrl
NoTags == [given |-> FALSE, list |-> <<>>]
Tags(list) == [given |-> TRUE, list |-> list]
WithSign(list, sign, most) ==
  Join([k \in 1..Min(most, Len(list)) |->
          IF StartsWith(list[k], sign) THEN list[k] ELSE <<sign>> \o list[k]], <<" ">>)
formatContent(content, options) ==
  LET tagged == IF options.hashtags.given
                THEN content \o <<"\n","\n">> \o WithSign(options.hashtags.list, "#", 5)
                ELSE content
      mentioned == IF options.mentions.given
                   THEN tagged \o <<"\n","\n">> \o WithSign(options.mentions.list, "@", 3)
                   ELSE tagged
  IN IF ~Includes(mentioned, repoUrl) /\ Len(mentioned \o linkText) <= 1000
     THEN mentioned \o linkText
     ELSE mentioned

\* splitIntoThreads
maxTweetLength == 280
maxThreadTweets == 25
threadNumberLength == 10
availableLength == maxTweetLength - threadNumberLength
\* where the loop cuts remainingContent: after the last sentence end within
\* availableLength, else at the last space, when these lie beyond 0.7 of it
SplitIndex(remainingContent) ==
  LET sentenceEnd == LastIndexOf(remainingContent, ".", availableLength)
      questionEnd == LastIndexOf(remainingContent, "?", availableLength)
      exclamationEnd == LastIndexOf(remainingContent, "!", availableLength)
      bestSentenceEnd == Max(Max(sentenceEnd, questionEnd), exclamationEnd)
      lastSpace == LastIndexOf(remainingContent, " ", availableLength)
  IN IF 10 * bestSentenceEnd > 7 * availableLength THEN bestSentenceEnd + 1
     ELSE IF 10 * lastSpace > 7 * availableLength THEN lastSpace
     ELSE availableLength
\* the locals of splitIntoThreads at its first statement
SplitStart(content) ==
  [pc |-> "loop", content |-> content, remainingContent |-> content, tweets |-> <<>>]
WhileGuard(st) ==
  st.pc = "loop" /\ Len(st.remainingContent) > 0 /\ Len(st.tweets) < maxThreadTweets
\* one iteration of the while loop; the break leaves the loop
SplitAt(st, splitIndex) ==
  [st EXCEPT !.tweets = Append(@, Trim(Substring(st.remainingContent, 0, splitIndex))),
             !.remainingContent =
                Trim(Substring(st.remainingContent, splitIndex, Len(st.remainingContent)))]
WhileBody(st) ==
  IF Len(st.remainingContent) <= availableLength
  THEN [st EXCEPT !.tweets = Append(@, Trim(st.remainingContent)), !.pc = "exit"]
  ELSE Only({SplitAt(st, splitIndex) : splitIndex \in {SplitIndex(st.remainingContent)}})
RECURSIVE While(_)
While(st) == IF WhileGuard(st) THEN While(WhileBody(st)) ELSE st
\* the thread numbering ' i/n' when there is more than one tweet
AddNumbering(tweets) ==
  IF Len(tweets) > 1
  THEN [k \in 1..Len(tweets) |-> tweets[k] \o <<" ">> \o NumStr(k) \o <<"/">> \o NumStr(Len(tweets))]
  ELSE tweets
splitIntoThreads(content) == AddNumbering(While(SplitStart(content)).tweets)

\* publish: the tweetData of tweet i (from 0) of the thread
Truthy(id) == id \notin {"null", ""}
\* the media attached to every tweet of the thread
TweetDataMediaAlways(tweets, i, mediaIds, inReplyToTweetId) ==
  [text |-> tweets[i + 1],
   media |-> mediaIds,
   reply |-> IF Truthy(inReplyToTweetId) THEN inReplyToTweetId ELSE "none"]
TweetData(tweets, i, mediaIds, inReplyToTweetId) ==
  [text |-> tweets[i + 1],
   media |-> IF i = 0 /\ Len(mediaIds) > 0 THEN mediaIds ELSE <<>>,
   reply |-> IF Truthy(inReplyToTweetId) THEN inReplyToTweetId ELSE "none"]
TweetIds == {"1111", "2222"}
NoTwResult == [success |-> FALSE, error |-> "none", thread |-> <<>>]
TwFailure(error) == [success |-> FALSE, error |-> error, thread |-> <<>>]
\* what getUserProfile returns, and validateToken around it
ProfileResult(method, ok) ==
  IF method = "validateToken"
  THEN [success |-> ok, valid |-> ok,
        error |-> IF ok THEN "undefined" ELSE "Failed to retrieve user profile", thread |-> <<>>]
  ELSE [success |-> ok,
        error |-> IF ok THEN "undefined" ELSE "Failed to retrieve user profile", thread |-> <<>>]
NoTwOptions == [hashtags |-> NoTags, mentions |-> NoTags]
IdleTw(credentials) ==
  [pc |-> "idle", method |-> "none", content |-> <<>>, options |-> NoTwOptions, mediaUrl |-> FALSE,
   credentials |-> credentials, tweets |-> <<>>, mediaIds |-> <<>>, i |-> 0,
   inReplyToTweetId |-> "null", results |-> <<>>, result |-> NoTwResult]
NoSplit == [pc |-> "idle", content |-> <<>>, remainingContent |-> <<>>, tweets |-> <<>>]

\* ------------------------------------------------------ ContentProcessor
\* charCodeAt for the characters of the contents: letters, digits and the
\* punctuation of an address or a redaction mark
UpperCase == <<"A","B","C","D","E","F","G","H","I","J","K","L","M","N","O","P","Q","R","S","T","U","V","W","X","Y","Z">>
LowerCase == <<"a","b","c","d","e","f","g","h","i","j","k","l","m","n","o","p","q","r","s","t","u","v","w","x","y","z">>
charCodeAt(c) ==
  CASE Includes(UpperCase, <<c>>) -> 65 + IndexOf(UpperCase, <<c>>)
    [] Includes(LowerCase, <<c>>) -> 97 + IndexOf(LowerCase, <<c>>)
    [] Includes(DigitSeq, <<c>>) -> 48 + IndexOf(DigitSeq, <<c>>)
    [] c = " " -> 32
    [] c = "." -> 46
    [] c = "@" -> 64
    [] c = "[" -> 91
    [] c = "]" -> 93
    [] c = "_" -> 95
\* hashContent: hash = ((hash << 5) - hash) + char; hash = hash & hash, a
\* 32-bit integer kept as two 16-bit halves; then Math.abs(hash).toString(16)
\* .substring(0, 8)
Half == 65536
HashStep(hash, char) ==
  LET lo == hash.lo * 31 + char
  IN [hi |-> (hash.hi * 31 + (lo \div Half)) % Half, lo |-> lo % Half]
RECURSIVE HashFrom(_, _, _)
HashFrom(hash, content, i) ==
  IF i > Len(content) THEN hash
  ELSE HashFrom(HashStep(hash, charCodeAt(content[i])), content, i + 1)
Abs32(hash) ==
  IF hash.hi < Half \div 2 THEN hash
  ELSE [hi |-> (Half - 1 - hash.hi + (IF hash.lo = 0 THEN 1 ELSE 0)) % Half,
        lo |-> (Half - hash.lo) % Half]
HexDigits == <<"0","1","2","3","4","5","6","7","8","9","a","b","c","d","e","f">>
RECURSIVE Hex(_)
Hex(n) == IF n < 16 THEN <<HexDigits[n + 1]>> ELSE Hex(n \div 16) \o <<HexDigits[(n % 16) + 1]>>
Hex4(n) == <<HexDigits[(n \div 4096) + 1], HexDigits[((n \div 256) % 16) + 1],
             HexDigits[((n \div 16) % 16) + 1], HexDigits[(n % 16) + 1]>>
ToString16(hash) == IF hash.hi = 0 THEN Hex(hash.lo) ELSE Hex(hash.hi) \o Hex4(hash.lo)
hashContent(content) ==
  Only({SubSeq(digits, 1, Min(8, Len(digits))) :
          digits \in {ToString16(Abs32(HashFrom([hi |-> 0, lo |-> 0], content, 1)))}})
\* `${platform}-${category}-${this.hashContent(content)}`
cacheKey(platform, category, content) ==
  platform \o <<"-">> \o category \o <<"-">> \o hashContent(content)
\* basicAdaptContent: the text cut to the platform's length and decorated; the
\* source holds the emoji as four and as three characters. content.length
\* throws when content is null.
Threw == [threw |-> TRUE]
NoPrivacyInfo == [given |-> FALSE, riskLevel |-> "undefined", issuesDetected |-> 0, suggestions |-> <<>>]
Adaptation(text, hashtags) ==
  [threw |-> FALSE, text |-> text, hashtags |-> hashtags, privacyInfo |-> NoPrivacyInfo]
Cut(text, maxLength) ==
  IF Len(text) > maxLength THEN SubSeq(text, 1, maxLength - 3) \o <<".",".",".">> ELSE text
basicAdaptContent(content, platform) ==
  IF content = JsNull THEN Threw
  ELSE LET maxLength == CASE platform = <<"l","i","n","k","e","d","i","n">> -> 2800
                          [] platform = <<"t","w","i","t","t","e","r">> -> 250
                          [] platform = <<"m","e","d","i","u","m">> -> 1000
                          [] OTHER -> 500
           text == Cut(content, maxLength)
       IN Adaptation(CASE platform = <<"l","i","n","k","e","d","i","n">> ->
                            <<"u00f0", "u0178", "u0161", "u20ac">> \o <<" ">> \o text
                              \o <<"\n","\n","W","h","a","t"," ","a","r","e"," ","y","o","u","r"," ","t","h","o","u","g","h","t","s"," ","o","n"," ","t","h","i","s","?">>
                       [] platform = <<"t","w","i","t","t","e","r">> ->
                            text \o <<" ">> \o <<"u00f0", "u0178", "u00a7", "u00b5">>
                       [] OTHER -> text,
                     <<<<"A","I">>, <<"T","e","c","h","n","o","l","o","g","y">>, <<"I","n","n","o","v","a","t","i","o","n">>>>)
\* validateContent on the object JSON.parse gave: text cut to the platform's
\* length, hashtags defaulted
validateContent(parsed, platform) ==
  LET maxLength == CASE platform = <<"l","i","n","k","e","d","i","n">> -> 3000
                     [] platform = <<"t","w","i","t","t","e","r">> -> 280
                     [] platform = <<"m","e","d","i","u","m">> -> 50000
                     [] OTHER -> 3000
  IN Adaptation(Cut(parsed.text, maxLength),
                IF parsed.hashtags = <<>> THEN <<<<"A","I">>, <<"T","e","c","h","n","o","l","o","g","y">>>> ELSE parsed.hashtags)
\* parseAIResponse: the reply is JSON for an object, or the catch adapts the
\* reply itself
parseAIResponse(answer, platform) ==
  IF answer.kind = "json" THEN validateContent(answer.value, platform)
  ELSE basicAdaptContent(answer.text, platform)
\* the property written on the object that was adapted
WithPrivacyInfo(platformContent, privacyResult) ==
  IF privacyResult.privacyFilterEnabled
  THEN [platformContent EXCEPT !.privacyInfo =
          [given |-> TRUE, riskLevel |-> privacyResult.privacyAnalysis.riskLevel,
           issuesDetected |-> Len(privacyResult.privacyAnalysis.detectedIssues),
           suggestions |-> privacyResult.privacyAnalysis.suggestions]]
  ELSE platformContent

\* ------------------------------------------------------------- inputs
\* The contents given to the facade: null, and the concatenations of at most
\* MaxFrags fragments. "123456789" is a bank account and a routing number,
\* "$5x Co" holds an amount and a company name that overlap.
Fragments == {<<"a","@","b",".","c","o">>, <<"1","2","3","4","5","6","7","8","9">>, <<"$","5">>, <<" ">>, <<"x"," ","C","o">>, <<"n","u","l","l">>, <<"B","o","b">>}
RECURSIVE Concat(_)
Concat(fs) == IF fs = <<>> THEN <<>> ELSE Head(fs) \o Concat(Tail(fs))
Contents ==
  {JsNull} \cup {Concat(fs) : fs \in UNION {[1..n -> Fragments] : n \in 0..MaxFrags}}
\* The contents analysed with the oracle configured.
AIContents ==
  {JsNull, <<>>, <<"B","o","b">>, <<"n","u","l","l"," ","B","o","b">>, <<"B","o","b"," ","a","@","b",".","c","o">>, <<"$","5","x"," ","C","o">>, <<"1","2","3","4","5","6","7","8","9">>, <<"$","5","$","5">>}
OptionValues == {"undefined", "true", "false"}
NoOptions == [enablePrivacyFilter |-> "undefined", forcePrivacyFilter |-> "undefined"]

\* What the oracle answers: the request is rejected (error, timeout), the
\* answer is no JSON, it is the JSON null, or it is an object whose buckets
\* hold at most MaxAIEntries entries together. A value the oracle names is a
\* string of the content, a string that is not in it, the empty string or null.
AIValues == {<<>>, JsNull, <<"B","o","b">>}
NoList == <<"notlist">>
AIEntry == {[bucket |-> b, item |-> v] : b \in 1..Len(Buckets), v \in AIValues \cup {NoList}}
AIEntrySeqs ==
  {es \in UNION {[1..n -> AIEntry] : n \in 0..MaxAIEntries} :
     \A k \in 1..(Len(es) - 1) : es[k].bucket <= es[k + 1].bucket}
AIObject(es) ==
  [name \in Range(Buckets) |->
     LET mine == SelectSeq(es, LAMBDA e : Buckets[e.bucket] = name)
     IN IF mine = <<>> THEN AbsentBucket
        ELSE IF \E k \in 1..Len(mine) : mine[k].item = NoList THEN NotAList
        ELSE ListBucket([k \in 1..Len(mine) |-> mine[k].item])]
NoObject == AIObject(<<>>)
AIResponses ==
  {[kind |-> k, value |-> NoObject] : k \in {"reject", "unparsable", "null"}}
  \cup {[kind |-> "object", value |-> AIObject(es)] : es \in AIEntrySeqs}

\* ---------------------------------------------------------------- state
VARIABLES
  ENABLE_PRIVACY_FILTER,  \* process.env.ENABLE_PRIVACY_FILTER
  openai,                 \* this.openai is set (TRUE) or null (FALSE)
  pc,                     \* where the running call stands
  request,                \* the call: method, content, options
  analysis,               \* the analysis object of analyzeContent
  patternIssues,          \* detectedIssues as detectPatternBasedIssues left it
  warned,                 \* detectAIBasedIssues logged 'AI-based privacy analysis failed'
  sortedIssues,           \* applyFilters: the sorted copy of detectedIssues
  idx,                    \* applyFilters: the index of the next issue of forEach
  filteredContent,        \* applyFilters: its local filteredContent
  result,                 \* what the call returned
  response,               \* what the oracle answered to the running call
  oracleCalls,            \* chat.completions.create requests of the running call
  failedBefore,           \* an oracle request of this facade has failed
  other,                  \* the frame of a second call, suspended at an await
  now,                    \* Date.now()
  twitterRateLimiter,     \* TwitterPublisher: this.rateLimiter
  linkedinRateLimiter,    \* LinkedInPublisher: this.rateLimiter
  rateOutcome,            \* how the last checkRateLimit ended
  tw,                     \* the call on the TwitterPublisher and its locals
  wire,                   \* the requests sent to the Twitter API and their responses
  split,                  \* a call of splitIntoThreads and its locals
  proc,                   \* ContentProcessor: the call of adaptContentForPlatforms and its locals
  contentCache,           \* ContentProcessor: this.contentCache
  ctl,                    \* the request on POST /content/publish and publishContent's locals
  processEnv              \* process.env: which access tokens are set
publishers == <<now, twitterRateLimiter, linkedinRateLimiter, rateOutcome, tw, wire, split>>
privacy == <<ENABLE_PRIVACY_FILTER, openai, pc, request, analysis, patternIssues, warned,
             sortedIssues, idx, filteredContent, result, response, oracleCalls, failedBefore,
             other>>
processors == <<proc, contentCache, ctl, processEnv>>
vars == <<privacy, publishers, processors>>

Methods == {"filterContent", "isContentSafe", "getAnonymizationSuggestions"}
NoError == "undefined"
NewAnalysis(content) ==
  [originalContent |-> content, filteredContent |-> content, detectedIssues |-> <<>>,
   riskLevel |-> riskLevels.LOW, suggestions |-> <<>>, anonymizationMap |-> <<>>,
   error |-> NoError]
NullAnalysis == [isNull |-> TRUE]
NoResult == [filteredContent |-> <<>>, privacyAnalysis |-> NullAnalysis, privacyFilterEnabled |-> FALSE]
NoResponse == [kind |-> "none", value |-> NoObject]
NoRequest == [method |-> "filterContent", content |-> <<>>, options |-> NoOptions]

\* The locals of one call: its arguments, its analysis object, the locals of
\* applyFilters, and what it returned.
Frame ==
  [pc |-> pc, request |-> request, analysis |-> analysis, patternIssues |-> patternIssues,
   warned |-> warned, sortedIssues |-> sortedIssues, idx |-> idx,
   filteredContent |-> filteredContent, result |-> result, response |-> response,
   oracleCalls |-> oracleCalls]
IdleFrame ==
  [pc |-> "idle", request |-> NoRequest, analysis |-> NewAnalysis(<<>>), patternIssues |-> <<>>,
   warned |-> FALSE, sortedIssues |-> <<>>, idx |-> 1, filteredContent |-> <<>>,
   result |-> NoResult, response |-> NoResponse, oracleCalls |-> 0]

\* The publishers after their constructors, with or without the OAuth 1.0a
\* credentials of the TwitterPublisher.
NoOutcome == [publisher |-> "none", type |-> "none", error |-> "none"]
InitPublishers(credentials) ==
  /\ now = 0
  /\ twitterRateLimiter = [tweets |-> Limiter, media |-> Limiter]
  /\ linkedinRateLimiter = Limiter
  /\ rateOutcome = NoOutcome
  /\ tw = IdleTw(credentials)
  /\ wire = <<>>
  /\ split = NoSplit

InitPrivacy(client) ==
  /\ ENABLE_PRIVACY_FILTER \in {"true", "false"}
  /\ openai = client
  /\ pc = "idle"
  /\ request = NoRequest
  /\ analysis = NewAnalysis(<<>>)
  /\ patternIssues = <<>>
  /\ warned = FALSE
  /\ sortedIssues = <<>>
  /\ idx = 1
  /\ filteredContent = <<>>
  /\ result = NoResult
  /\ response = NoResponse
  /\ oracleCalls = 0
  /\ failedBefore = FALSE
  /\ other = IdleFrame
\* The ContentProcessor and the controller after their constructors; the
\* route needs the access token of each platform it is asked to publish to.
NoProc ==
  [pc |-> "idle", content |-> <<>>, platforms |-> <<>>, category |-> <<>>,
   filteredContent |-> <<>>, i |-> 1, adaptedContent |-> <<>>, adapted |-> <<>>]
NoCtl ==
  [pc |-> "idle", content |-> <<>>, platforms |-> <<>>, i |-> 1, results |-> <<>>,
   status |-> 0, success |-> FALSE, successCount |-> 0, totalCount |-> 0]
AllTokens == [LINKEDIN_ACCESS_TOKEN |-> TRUE, TWITTER_ACCESS_TOKEN |-> TRUE]
InitProcessors(tokens) ==
  /\ proc = NoProc
  /\ contentCache = <<>>
  /\ ctl = NoCtl
  /\ processEnv = tokens
InitWith(client) == InitPrivacy(client) /\ InitPublishers(TRUE) /\ InitProcessors(AllTokens)

\* A caller calls one of the methods of the facade, on a facade that is idle or
\* whose last call has returned; only filterContent takes options.
Call(contents) ==
  /\ pc \in {"idle", "returned"}
  /\ \E method \in Methods, content \in contents, enable \in OptionValues,
        force \in {"undefined", "true"} :
       /\ method # "filterContent" => enable = "undefined" /\ force = "undefined"
       /\ request' = [method |-> method, content |-> content,
                      options |-> [enablePrivacyFilter |-> enable, forcePrivacyFilter |-> force]]
  /\ pc' = "called"
  /\ analysis' = NewAnalysis(<<>>)
  /\ patternIssues' = <<>>
  /\ warned' = FALSE
  /\ sortedIssues' = <<>>
  /\ idx' = 1
  /\ filteredContent' = <<>>
  /\ result' = NoResult
  /\ response' = NoResponse
  /\ oracleCalls' = 0
  /\ UNCHANGED <<ENABLE_PRIVACY_FILTER, openai, failedBefore, other, publishers, processors>>

\* the parentheses dropped: the force flag overrides enablePrivacyFilter: false
enablePrivacyFilterForced(options, env) ==
  (options.enablePrivacyFilter # "false" /\ env = "true") \/ options.forcePrivacyFilter = "true"
\* options.enablePrivacyFilter !== false &&
\*   (process.env.ENABLE_PRIVACY_FILTER === 'true' || options.forcePrivacyFilter)
enablePrivacyFilter(options, env) ==
  options.enablePrivacyFilter # "false" /\ (env = "true" \/ options.forcePrivacyFilter = "true")

\* filterContent up to its call of analyzeContent, which builds the analysis
\* object; the options are not read again.
FilterContent ==
  /\ pc = "called"
  /\ request.method = "filterContent"
  /\ IF ~enablePrivacyFilter(request.options, ENABLE_PRIVACY_FILTER)
     THEN /\ result' = [filteredContent |-> request.content, privacyAnalysis |-> NullAnalysis,
                        privacyFilterEnabled |-> FALSE]
          /\ pc' = "returned"
          /\ UNCHANGED <<request, analysis>>
     ELSE /\ analysis' = NewAnalysis(request.content)
          /\ request' = [request EXCEPT !.options = NoOptions]
          /\ pc' = "detect"
          /\ UNCHANGED result
  /\ UNCHANGED <<ENABLE_PRIVACY_FILTER, openai, patternIssues, warned, sortedIssues, idx,
                 filteredContent, response, oracleCalls, failedBefore, other, publishers, processors>>

\* isContentSafe and getAnonymizationSuggestions up to their call of analyzeContent
IsContentSafe ==
  /\ pc = "called"
  /\ request.method = "isContentSafe"
  /\ analysis' = NewAnalysis(request.content)
  /\ pc' = "detect"
  /\ UNCHANGED <<ENABLE_PRIVACY_FILTER, openai, request, patternIssues, warned, sortedIssues, idx,
                 filteredContent, result, response, oracleCalls, failedBefore, other, publishers, processors>>
GetAnonymizationSuggestions ==
  /\ pc = "called"
  /\ request.method = "getAnonymizationSuggestions"
  /\ analysis' = NewAnalysis(request.content)
  /\ pc' = "detect"
  /\ UNCHANGED <<ENABLE_PRIVACY_FILTER, openai, request, patternIssues, warned, sortedIssues, idx,
                 filteredContent, result, response, oracleCalls, failedBefore, other, publishers, processors>>

\* a catch that returns the text as applyFilters had redacted it so far
FailedRedacted(a) ==
  [a EXCEPT !.error = "Privacy analysis failed", !.riskLevel = riskLevels.HIGH,
            !.filteredContent = filteredContent]
\* the catch without its riskLevel override
FailedKeepsRisk(a) == [a EXCEPT !.error = "Privacy analysis failed"]
\* The catch of analyzeContent, and the return of filterContent after it.
Failed(a) == [a EXCEPT !.error = "Privacy analysis failed", !.riskLevel = riskLevels.HIGH]
ReturnOf(a) ==
  [filteredContent |-> a.filteredContent, privacyAnalysis |-> a, privacyFilterEnabled |-> TRUE]
\* safe unless the risk is high
isContentSafeNotHigh(a) == a.riskLevel # riskLevels.HIGH
\* what isContentSafe returns for the analysis a
isContentSafe(a) == a.riskLevel = riskLevels.LOW
\* the view with the matched value of each issue in it
getAnonymizationSuggestionsWithValue(a) ==
  [riskLevel |-> a.riskLevel, suggestions |-> a.suggestions,
   detectedIssues |-> [k \in 1..Len(a.detectedIssues) |->
      [type |-> a.detectedIssues[k].type, riskLevel |-> a.detectedIssues[k].riskLevel,
       suggestion |-> ToStr(a.detectedIssues[k].value)]]]
\* what getAnonymizationSuggestions returns for the analysis a
getAnonymizationSuggestions(a) ==
  [riskLevel |-> a.riskLevel, suggestions |-> a.suggestions,
   detectedIssues |-> [k \in 1..Len(a.detectedIssues) |->
      [type |-> a.detectedIssues[k].type, riskLevel |-> a.detectedIssues[k].riskLevel,
       suggestion |-> getReplacementText(a.detectedIssues[k])]]]
\* what the method returns once analyzeContent has returned a
ReturnTo(method, a) ==
  CASE method = "filterContent" -> ReturnOf(a)
    [] method = "isContentSafe" -> isContentSafe(a)
    [] method = "getAnonymizationSuggestions" -> getAnonymizationSuggestions(a)

\* Step 1: detectPatternBasedIssues; content.match throws when content is no string.
DetectPatternBasedIssues ==
  /\ pc = "detect"
  /\ IF analysis.originalContent = JsNull
     THEN /\ analysis' = Failed(analysis)
          /\ result' = ReturnTo(request.method, analysis')
          /\ pc' = "returned"
          /\ UNCHANGED patternIssues
     ELSE /\ analysis' = [analysis EXCEPT !.detectedIssues =
                                            detectPatternBasedIssues(analysis.originalContent)]
          /\ patternIssues' = analysis'.detectedIssues
          /\ pc' = IF openai THEN "ai" ELSE "apply"
          /\ UNCHANGED result
  /\ UNCHANGED <<ENABLE_PRIVACY_FILTER, openai, request, warned, sortedIssues, idx, filteredContent,
                 response, oracleCalls, failedBefore, other, publishers, processors>>

\* a facade that gives up its client once a request has failed
ClientDropped(client, failed) == client /\ ~failed
\* this.openai after detectAIBasedIssues: its catch only logs
ClientAfter(client, failed) == client

\* Step 2: detectAIBasedIssues with the oracle's answer to its one request; its
\* catch logs and keeps what addAIDetectedIssues pushed before it threw.
DetectAIBasedIssues(responses) ==
  /\ pc = "ai"
  /\ \E answer \in responses :
       /\ response' = answer
       /\ IF answer.kind # "object"
          THEN warned' = TRUE /\ UNCHANGED analysis
          ELSE LET added == addAIDetectedIssues(answer.value, analysis.originalContent, 1)
               IN /\ analysis' = [analysis EXCEPT !.detectedIssues = @ \o added.issues]
                  /\ warned' = added.threw
  /\ oracleCalls' = oracleCalls + 1
  /\ failedBefore' = (failedBefore \/ warned')
  /\ openai' = ClientAfter(openai, warned')
  /\ pc' = "apply"
  /\ UNCHANGED <<ENABLE_PRIVACY_FILTER, request, patternIssues, sortedIssues, idx,
                 filteredContent, result, other, publishers, processors>>

\* sort called on analysis.detectedIssues itself
SortedInPlace(detectedIssues, sorted) == sorted
\* analysis.detectedIssues after [...analysis.detectedIssues].sort(...): the
\* copy is sorted, the array of the analysis is not
AfterSort(detectedIssues, sorted) == detectedIssues
\* Step 3, applyFilters: the copy and the sort
ApplyFiltersSort ==
  /\ pc = "apply"
  /\ filteredContent' = analysis.originalContent
  /\ sortedIssues' = SortIssues(analysis.detectedIssues)
  /\ analysis' = [analysis EXCEPT !.detectedIssues = AfterSort(@, SortIssues(@))]
  /\ idx' = 1
  /\ pc' = "applying"
  /\ UNCHANGED <<ENABLE_PRIVACY_FILTER, openai, request, patternIssues, warned, result,
                 response, oracleCalls, failedBefore, other, publishers, processors>>

\* applyFilters: one callback of forEach; issue.value.length throws on null
ApplyFiltersIssue ==
  /\ pc = "applying"
  /\ idx <= Len(sortedIssues)
  /\ LET issue == sortedIssues[idx]
     IN IF Applies(issue) /\ issue.value = JsNull
        THEN /\ analysis' = Failed(analysis)
             /\ result' = ReturnTo(request.method, analysis')
             /\ pc' = "returned"
             /\ UNCHANGED <<idx, filteredContent>>
        ELSE /\ IF Applies(issue)
                THEN /\ filteredContent' = Substitute(filteredContent, issue)
                     /\ analysis' = [analysis EXCEPT !.anonymizationMap =
                                       MapSet(@, issue.value, getReplacementText(issue))]
                ELSE UNCHANGED <<filteredContent, analysis>>
             /\ idx' = idx + 1
             /\ UNCHANGED <<pc, result>>
  /\ UNCHANGED <<ENABLE_PRIVACY_FILTER, openai, request, patternIssues, warned, sortedIssues,
                 response, oracleCalls, failedBefore, other, publishers, processors>>

\* applyFilters returns; steps 4 and 5; analyzeContent and the method return
AnalyzeContentReturn ==
  /\ pc = "applying"
  /\ idx > Len(sortedIssues)
  /\ LET riskLevel == calculateRiskLevel(analysis.detectedIssues)
     IN analysis' = [analysis EXCEPT !.filteredContent = filteredContent,
                                     !.riskLevel = riskLevel,
                                     !.suggestions = generateSuggestions(analysis.detectedIssues, riskLevel)]
  /\ result' = ReturnTo(request.method, analysis')
  /\ pc' = "returned"
  /\ UNCHANGED <<ENABLE_PRIVACY_FILTER, openai, request, patternIssues, warned, sortedIssues, idx,
                 filteredContent, response, oracleCalls, failedBefore, other, publishers, processors>>

\* analyzeContent run alone, from its first statement to its return, on a
\* facade with or without a client and with the answer the oracle gives.
RECURSIVE ForEachIssue(_, _, _, _)
ForEachIssue(a, text, sorted, k) ==
  IF k > Len(sorted) THEN [analysis |-> a, text |-> text, threw |-> FALSE]
  ELSE IF ~Applies(sorted[k]) THEN ForEachIssue(a, text, sorted, k + 1)
  ELSE IF sorted[k].value = JsNull THEN [analysis |-> a, text |-> text, threw |-> TRUE]
  ELSE ForEachIssue([a EXCEPT !.anonymizationMap =
                       MapSet(@, sorted[k].value, getReplacementText(sorted[k]))],
                    Substitute(text, sorted[k]), sorted, k + 1)
analyzeContent(content, client, answer) ==
  IF content = JsNull THEN Failed(NewAnalysis(content))
  ELSE LET found == detectPatternBasedIssues(content)
           added == IF client /\ answer.kind = "object"
                    THEN addAIDetectedIssues(answer.value, content, 1).issues
                    ELSE <<>>
           a == [NewAnalysis(content) EXCEPT !.detectedIssues = found \o added]
           applied == ForEachIssue(a, content, SortIssues(a.detectedIssues), 1)
           riskLevel == calculateRiskLevel(a.detectedIssues)
       IN IF applied.threw THEN Failed(applied.analysis)
          ELSE [applied.analysis EXCEPT !.filteredContent = applied.text,
                                        !.riskLevel = riskLevel,
                                        !.suggestions = generateSuggestions(a.detectedIssues, riskLevel)]

\* The facade without an OpenAI client (no OPENAI_API_KEY).
Init == InitWith(FALSE)
Next ==
  \/ Call(Contents)
  \/ FilterContent
  \/ IsContentSafe
  \/ GetAnonymizationSuggestions
  \/ DetectPatternBasedIssues
  \/ ApplyFiltersSort
  \/ ApplyFiltersIssue
  \/ AnalyzeContentReturn
Spec == Init /\ [][Next]_vars

\* The facade with an OpenAI client.
InitAI == InitWith(TRUE)
NextAI ==
  \/ Call(AIContents)
  \/ FilterContent
  \/ IsContentSafe
  \/ GetAnonymizationSuggestions
  \/ DetectPatternBasedIssues
  \/ DetectAIBasedIssues(AIResponses)
  \/ ApplyFiltersSort
  \/ ApplyFiltersIssue
  \/ AnalyzeContentReturn
SpecAI == InitAI /\ [][NextAI]_vars

\* Two calls on one facade, with or without a client. The event loop runs one call at a
\* time and may switch to the other one where the running call awaits (the
\* request to the oracle, the return of detectAIBasedIssues) or is not running.
ParContents == {JsNull, <<"n","u","l","l">>, <<"a","@","b",".","c","o">>, <<"c","@","d",".","i","o">>}
ParResponses ==
  {[kind |-> "reject", value |-> NoObject],
   [kind |-> "object", value |-> AIObject(<<[bucket |-> 5, item |-> <<>>]>>)],
   [kind |-> "object", value |-> AIObject(<<[bucket |-> 5, item |-> JsNull]>>)]}
\* the analysis object kept on the facade instead of in the call
FacadeAnalysis(saved, current) == current
\* const analysis = {...}: every call works on the object it created
OwnAnalysis(saved, current) == saved
Switch ==
  /\ pc \in {"idle", "ai", "apply", "returned"}
  /\ other' = Frame
  /\ pc' = other.pc
  /\ request' = other.request
  /\ analysis' = OwnAnalysis(other.analysis, analysis)
  /\ patternIssues' = other.patternIssues
  /\ warned' = other.warned
  /\ sortedIssues' = other.sortedIssues
  /\ idx' = other.idx
  /\ filteredContent' = other.filteredContent
  /\ result' = other.result
  /\ response' = other.response
  /\ oracleCalls' = other.oracleCalls
  /\ UNCHANGED <<ENABLE_PRIVACY_FILTER, openai, failedBefore, publishers, processors>>
InitPar == \E client \in BOOLEAN : InitWith(client)
NextPar ==
  \/ Call(ParContents)
  \/ FilterContent
  \/ IsContentSafe
  \/ GetAnonymizationSuggestions
  \/ DetectPatternBasedIssues
  \/ DetectAIBasedIssues(ParResponses)
  \/ ApplyFiltersSort
  \/ ApplyFiltersIssue
  \/ AnalyzeContentReturn
  \/ Switch
SpecPar == InitPar /\ [][NextPar]_vars

\* ---------------------------------------------------- publishers: actions
\* Time passes between calls.
Tick ==
  /\ now < MaxNow
  /\ now' = now + 1
  /\ UNCHANGED <<processors, privacy, twitterRateLimiter, linkedinRateLimiter, rateOutcome, tw, wire, split>>

\* TwitterPublisher.checkRateLimit(type)
TwitterCheckRateLimit(types) ==
  \E type \in types :
    LET checked == twitterCheckRateLimit(twitterRateLimiter, type, now)
    IN /\ twitterRateLimiter' = checked.rateLimiter
       /\ rateOutcome' = [publisher |-> "twitter", type |-> type, error |-> checked.error]
       /\ UNCHANGED <<processors, privacy, now, linkedinRateLimiter, tw, wire, split>>

\* LinkedInPublisher.checkRateLimit()
LinkedInCheckRateLimit ==
  LET checked == checkRateLimit(linkedinRateLimiter, now)
  IN /\ linkedinRateLimiter' = checked.limiter
     /\ rateOutcome' = [publisher |-> "linkedin", type |-> "none", error |-> checked.error]
     /\ UNCHANGED <<processors, privacy, now, twitterRateLimiter, tw, wire, split>>

\* The calls of checkRateLimit of both publishers at the times of a clock
\* that does not go back.
NextRate ==
  \/ Tick
  \/ TwitterCheckRateLimit({"tweets", "media"})
  \/ LinkedInCheckRateLimit
SpecRate == InitWith(FALSE) /\ [][NextRate]_vars

\* The calls on the TwitterPublisher. A call is made when no other is in
\* progress; wire then starts logging the requests of the new call.
TwMethods == {"getUserProfile", "validateToken", "publish"}
TwContents ==
  {[content |-> <<"H","i">>,
    options |-> [hashtags |-> Tags(<<<<"d","e","v">>, <<"#","j","s">>>>), mentions |-> Tags(<<<<"b","o","b">>>>)]],
   [content |-> Repeat(<<"a","b","c","d","e","f","g","h","i"," ">>, 60), options |-> NoTwOptions]}
NoData == [text |-> <<>>, media |-> <<>>, reply |-> "none"]
TwitterCall(contents) ==
  /\ tw.pc \in {"idle", "returned"}
  /\ \E method \in TwMethods, input \in contents, mediaUrl \in BOOLEAN :
       tw' = [IdleTw(tw.credentials) EXCEPT
                !.pc = "called", !.method = method,
                !.content = IF method = "publish" THEN input.content ELSE <<>>,
                !.options = IF method = "publish" THEN input.options ELSE NoTwOptions,
                !.mediaUrl = method = "publish" /\ mediaUrl]
  /\ wire' = <<>>
  /\ UNCHANGED <<processors, privacy, now, twitterRateLimiter, linkedinRateLimiter, rateOutcome, split>>

\* getUserProfile, alone or from validateToken: checkRateLimit('api'), then
\* the users/me request and its response; whatever throws is caught.
TwitterGetUserProfile ==
  /\ tw.pc = "called"
  /\ tw.method \in {"getUserProfile", "validateToken"}
  /\ LET checked == twitterCheckRateLimit(twitterRateLimiter, "api", now)
     IN /\ twitterRateLimiter' = checked.rateLimiter
        /\ rateOutcome' = [publisher |-> "twitter", type |-> "api", error |-> checked.error]
        /\ IF checked.error # "none"
           THEN /\ wire' = wire
                /\ tw' = [tw EXCEPT !.pc = "returned", !.result = ProfileResult(tw.method, FALSE)]
           ELSE \E ok \in BOOLEAN :
                  /\ wire' = Append(wire, [url |-> "users/me", data |-> NoData,
                                           response |-> IF ok THEN "profile" ELSE "error"])
                  /\ tw' = [tw EXCEPT !.pc = "returned", !.result = ProfileResult(tw.method, ok)]
  /\ UNCHANGED <<processors, privacy, now, linkedinRateLimiter, split>>

\* what publish does once the loop over the tweets is left
AfterLoop(results) ==
  IF results = <<>> THEN TwFailure("Post publication failed")
  ELSE [success |-> TRUE, error |-> "undefined", thread |-> results]
\* publish up to its first await after checkRateLimit('tweets')
TwitterPublish ==
  /\ tw.pc = "called"
  /\ tw.method = "publish"
  /\ LET checked == twitterCheckRateLimit(twitterRateLimiter, "tweets", now)
         tweets == splitIntoThreads(formatContent(tw.content, tw.options))
     IN /\ twitterRateLimiter' = checked.rateLimiter
        /\ rateOutcome' = [publisher |-> "twitter", type |-> "tweets", error |-> checked.error]
        /\ tw' = IF checked.error # "none"
                 THEN [tw EXCEPT !.pc = "returned", !.result = TwFailure("Post publication failed")]
                 ELSE IF ~tw.credentials
                 THEN [tw EXCEPT !.pc = "returned",
                                 !.result = TwFailure("Missing OAuth 1.0a credentials")]
                 ELSE IF tw.mediaUrl
                 THEN [tw EXCEPT !.pc = "media", !.tweets = tweets]
                 ELSE IF tweets = <<>>
                 THEN [tw EXCEPT !.pc = "returned", !.tweets = tweets, !.result = AfterLoop(<<>>)]
                 ELSE [tw EXCEPT !.pc = "post", !.tweets = tweets]
  /\ UNCHANGED <<processors, privacy, now, linkedinRateLimiter, wire, split>>

\* uploadMedia: checkRateLimit('media'), the download and the upload. FormData
\* is not imported, so whether the upload can succeed depends on the runtime.
TwitterUploadMedia ==
  /\ tw.pc = "media"
  /\ LET checked == twitterCheckRateLimit(twitterRateLimiter, "media", now)
     IN /\ twitterRateLimiter' = checked.rateLimiter
        /\ rateOutcome' = [publisher |-> "twitter", type |-> "media", error |-> checked.error]
        /\ \E uploaded \in BOOLEAN :
             LET mediaIds == IF checked.error = "none" /\ uploaded THEN <<"m1">> ELSE <<>>
             IN tw' = IF tw.tweets = <<>>
                      THEN [tw EXCEPT !.pc = "returned", !.mediaIds = mediaIds,
                                      !.result = AfterLoop(<<>>)]
                      ELSE [tw EXCEPT !.pc = "post", !.mediaIds = mediaIds]
  /\ UNCHANGED <<processors, privacy, now, linkedinRateLimiter, wire, split>>

\* one iteration of the loop up to the await of axios.post
TwitterPostTweet ==
  /\ tw.pc = "post"
  /\ wire' = Append(wire, [url |-> "tweets",
                           data |-> TweetData(tw.tweets, tw.i, tw.mediaIds, tw.inReplyToTweetId),
                           response |-> "pending"])
  /\ tw' = [tw EXCEPT !.pc = "await"]
  /\ UNCHANGED <<processors, privacy, now, twitterRateLimiter, linkedinRateLimiter, rateOutcome, split>>

\* the response to the tweet: an id, or a rejection that the catch turns
\* into a failure. After the last tweet publish returns.
TwitterTweetResponse ==
  /\ tw.pc = "await"
  /\ \E id \in TweetIds \cup {"error"} :
       /\ wire' = [wire EXCEPT ![Len(wire)].response = id]
       /\ IF id = "error"
          THEN tw' = [tw EXCEPT !.pc = "returned", !.result = TwFailure("Post publication failed")]
          ELSE LET results == Append(tw.results,
                                     [success |-> TRUE, tweetId |-> id, text |-> tw.tweets[tw.i + 1],
                                      threadPosition |-> tw.i + 1, threadTotal |-> Len(tw.tweets)])
               IN tw' = IF tw.i + 1 < Len(tw.tweets)
                        THEN [tw EXCEPT !.pc = "post", !.results = results,
                                        !.inReplyToTweetId = id, !.i = tw.i + 1]
                        ELSE [tw EXCEPT !.pc = "returned", !.results = results,
                                        !.inReplyToTweetId = id, !.i = tw.i + 1,
                                        !.result = AfterLoop(results)]
  /\ UNCHANGED <<processors, privacy, now, twitterRateLimiter, linkedinRateLimiter, rateOutcome, split>>

InitTwitter ==
  /\ InitPrivacy(FALSE)
  /\ \E credentials \in BOOLEAN : InitPublishers(credentials)
  /\ InitProcessors(AllTokens)
NextTwitter ==
  \/ Tick
  \/ TwitterCall(TwContents)
  \/ TwitterGetUserProfile
  \/ TwitterPublish
  \/ TwitterUploadMedia
  \/ TwitterPostTweet
  \/ TwitterTweetResponse
SpecTwitter == InitTwitter /\ [][NextTwitter]_vars

\* splitIntoThreads, one loop iteration at a time.
SplitContents ==
  {<<>>, <<" "," "," ">>, <<"T","h","i","s"," ","i","s"," ","a"," ","s","h","o","r","t"," ","t","w","e","e","t">>, <<" "," ","H","i","."," ">>,
   Repeat(<<"A">>, 269), Repeat(<<"A">>, 270), Repeat(<<"A">>, 271), Repeat(<<"A">>, 280),
   Repeat(<<"A">>, 281), Repeat(<<"A">>, 500), Repeat(<<"A">>, 6750), Repeat(<<"A">>, 7000),
   Repeat(<<"a","b","."," ">>, 150), Repeat(<<"a","b","c","d","e","f","g","h","i"," ">>, 60), Repeat(<<"W","h","y","?"," ">>, 60),
   Repeat(<<"A">>, 270) \o <<".">> \o Repeat(<<"B">>, 30),
   Repeat(Repeat(<<"A">>, 270) \o <<"!">>, 12),
   <<"F","i","r","s","t"," ","s","e","n","t","e","n","c","e","."," ">> \o Repeat(<<"A">>, 300) \o <<"."," ","T","h","i","r","d"," ","s","e","n","t","e","n","c","e",".">>}
SplitIntoThreads(contents) ==
  /\ split.pc \in {"idle", "done"}
  /\ \E content \in contents : split' = SplitStart(content)
  /\ UNCHANGED <<processors, privacy, now, twitterRateLimiter, linkedinRateLimiter, rateOutcome, tw, wire>>
SplitWhile ==
  /\ WhileGuard(split)
  /\ split' = WhileBody(split)
  /\ UNCHANGED <<processors, privacy, now, twitterRateLimiter, linkedinRateLimiter, rateOutcome, tw, wire>>
SplitReturn ==
  /\ split.pc \in {"loop", "exit"}
  /\ ~WhileGuard(split)
  /\ split' = [split EXCEPT !.pc = "done", !.tweets = AddNumbering(@)]
  /\ UNCHANGED <<processors, privacy, now, twitterRateLimiter, linkedinRateLimiter, rateOutcome, tw, wire>>
NextSplit ==
  \/ SplitIntoThreads(SplitContents)
  \/ SplitWhile
  \/ SplitReturn
\* The function is synchronous: once called it runs its statements.
SpecSplit ==
  InitWith(FALSE) /\ [][NextSplit]_vars /\ WF_vars(SplitWhile) /\ WF_vars(SplitReturn)

\* ------------------------------------------------------------ properties
Enabled == pc = "returned" /\ request.method = "filterContent" /\ result.privacyFilterEnabled
Succeeded == Enabled /\ result.privacyAnalysis.error = NoError

\* ------------------------------------------------ ContentProcessor: actions
\* The contents, platform lists and options given to adaptContentForPlatforms.
\* The filter redacts "a@b.co" and leaves "a@aMco", which has the same
\* hashContent as "a@b.co".
ProcContents == {JsNull, <<"a","@","b",".","c","o">>, <<"a","@","a","M","c","o">>}
ProcPlatforms == {<<<<"t","w","i","t","t","e","r">>>>, <<<<"l","i","n","k","e","d","i","n">>, <<"t","w","i","t","t","e","r">>>>}
ProcCategories == {"undefined"}
\* What the oracle answers to aiAdaptContent: the request is rejected, the
\* reply is no JSON, or it is the JSON of an object with a text.
ProcAnswers ==
  {[kind |-> "reject", text |-> <<>>, value |-> [text |-> <<>>, hashtags |-> <<>>]],
   [kind |-> "text", text |-> <<"H","i">>, value |-> [text |-> <<>>, hashtags |-> <<>>]],
   [kind |-> "json", text |-> <<>>, value |-> [text |-> <<"Y","o">>, hashtags |-> <<>>]]}
\* What the oracle answers to the privacy filter in these calls.
ProcResponses == {[kind |-> "object", value |-> NoObject]}

\* the adapters given the text the caller passed
AdapterInputOriginal(content, filtered) == content
\* const filteredContent = privacyResult.filteredContent: what the adapters get
AdapterInput(content, filtered) == filtered

\* aiAdaptContent(content, platform, category) on the cache, with the answer
\* the oracle gives if it is asked: the object returned, whether it is the
\* object the cache holds under key, the cache it leaves and the adapter
\* calls made. hashContent throws when content is null.
aiAdaptContentAt(cache, content, platform, category, answer, key) ==
  LET madeFor == [platform |-> platform, category |-> category, content |-> content]
  IN IF key \in DOMAIN cache
     THEN [threw |-> FALSE, object |-> cache[key].value, shared |-> TRUE, key |-> key,
           cache |-> cache,
           adapted |-> <<[adapter |-> "contentCache", content |-> content,
                          madeFor |-> cache[key].madeFor]>>]
     ELSE IF answer.kind = "reject"
     THEN [threw |-> FALSE, object |-> basicAdaptContent(content, platform),
           shared |-> FALSE, key |-> key, cache |-> cache,
           adapted |-> <<[adapter |-> "openai", content |-> content, madeFor |-> madeFor],
                         [adapter |-> "basicAdaptContent", content |-> content,
                          madeFor |-> madeFor]>>]
     ELSE [threw |-> FALSE, object |-> parseAIResponse(answer, platform),
           shared |-> TRUE, key |-> key,
           cache |-> (key :> [value |-> parseAIResponse(answer, platform),
                              madeFor |-> madeFor]) @@ cache,
           adapted |-> <<[adapter |-> "openai", content |-> content, madeFor |-> madeFor]>>]
aiAdaptContent(cache, content, platform, category, answer) ==
  IF content = JsNull
  THEN [threw |-> TRUE, object |-> Threw, shared |-> FALSE, key |-> <<>>, cache |-> cache,
        adapted |-> <<>>]
  ELSE Only({aiAdaptContentAt(cache, content, platform, category, answer, key) :
               key \in {cacheKey(platform, category, content)}})

\* adaptContentForPlatforms up to its await of filterContent: the call of the
\* filter with the content and the options it was given
Adapt(content, platforms, enable, category) ==
  /\ proc' = [NoProc EXCEPT !.pc = "filter", !.content = content, !.platforms = platforms,
                            !.category = IF category = "undefined" THEN <<"a","i","_","a","u","t","o","m","a","t","i","o","n">>
                                         ELSE category]
  /\ request' = [method |-> "filterContent", content |-> content,
                 options |-> [enablePrivacyFilter |-> enable, forcePrivacyFilter |-> "undefined"]]
  /\ pc' = "called"
  /\ analysis' = NewAnalysis(<<>>)
  /\ patternIssues' = <<>>
  /\ warned' = FALSE
  /\ sortedIssues' = <<>>
  /\ idx' = 1
  /\ filteredContent' = <<>>
  /\ result' = NoResult
  /\ response' = NoResponse
  /\ oracleCalls' = 0
  /\ UNCHANGED <<ENABLE_PRIVACY_FILTER, openai, failedBefore, other>>
\* a caller (previewContent, a test) calls adaptContentForPlatforms
AdaptContentForPlatforms(contents) ==
  /\ proc.pc \in {"idle", "returned", "threw"}
  /\ ctl.pc = "idle"
  /\ \E content \in contents, platforms \in ProcPlatforms, enable \in {"undefined", "false"},
        category \in ProcCategories :
       Adapt(content, platforms, enable, category)
  /\ UNCHANGED <<publishers, contentCache, ctl, processEnv>>

\* filterContent has returned: step 1 ends
AdaptFiltered ==
  /\ proc.pc = "filter"
  /\ pc = "returned"
  /\ proc' = [proc EXCEPT !.pc = "platforms",
                          !.filteredContent = AdapterInput(proc.content, result.filteredContent)]
  /\ UNCHANGED <<privacy, publishers, contentCache, ctl, processEnv>>

\* the object adaptedContent[platform] refers to: the one of the cache, or its own
Deref(cache, ref) == IF ref.shared THEN cache[ref.key].value ELSE ref.own
\* Step 2, one iteration of the loop over the platforms: the adaptation, the
\* privacyInfo written on the object it returned, and the catch.
AdaptPlatform(answers) ==
  /\ proc.pc = "platforms"
  /\ proc.i <= Len(proc.platforms)
  /\ \E answer \in answers, basic \in {basicAdaptContent(proc.filteredContent,
                                                         proc.platforms[proc.i])} :
       LET platform == proc.platforms[proc.i]
           viaBasic == <<[adapter |-> "basicAdaptContent", content |-> proc.filteredContent,
                          madeFor |-> [platform |-> platform, category |-> proc.category,
                                       content |-> proc.filteredContent]]>>
       IN \E tried \in {IF openai
                        THEN aiAdaptContent(contentCache, proc.filteredContent, platform,
                                            proc.category, answer)
                        ELSE [threw |-> basic = Threw, object |-> basic, shared |-> FALSE,
                              key |-> <<>>, cache |-> contentCache, adapted |-> viaBasic]} :
            IF tried.threw
            THEN /\ contentCache' = contentCache
                 /\ proc' = IF basic = Threw
                            THEN [proc EXCEPT !.pc = "threw",
                                              !.adapted = @ \o tried.adapted \o viaBasic]
                            ELSE [proc EXCEPT !.i = @ + 1,
                                              !.adapted = @ \o tried.adapted \o viaBasic,
                                              !.adaptedContent =
                                                 (platform :> [shared |-> FALSE, key |-> <<>>,
                                                               own |-> basic]) @@ @]
            ELSE \E platformContent \in {WithPrivacyInfo(tried.object, result)} :
                   /\ contentCache' =
                        IF tried.shared
                        THEN [tried.cache EXCEPT ![tried.key].value = platformContent]
                        ELSE tried.cache
                   /\ proc' = [proc EXCEPT !.i = @ + 1,
                                           !.adapted = @ \o tried.adapted,
                                           !.adaptedContent =
                                              (platform :> [shared |-> tried.shared,
                                                            key |-> tried.key,
                                                            own |-> IF tried.shared THEN Threw
                                                                    ELSE platformContent]) @@ @]
  /\ UNCHANGED <<privacy, publishers, ctl, processEnv>>

\* the loop is left: adaptContentForPlatforms returns adaptedContent
AdaptReturn ==
  /\ proc.pc = "platforms"
  /\ proc.i > Len(proc.platforms)
  /\ proc' = [proc EXCEPT !.pc = "returned"]
  /\ UNCHANGED <<privacy, publishers, contentCache, ctl, processEnv>>

\* The ContentProcessor with its privacy filter, with or without OPENAI_API_KEY.
InitProcessor == \E client \in BOOLEAN : InitWith(client)
NextProcessor ==
  \/ AdaptContentForPlatforms(ProcContents)
  \/ FilterContent
  \/ DetectPatternBasedIssues
  \/ DetectAIBasedIssues(ProcResponses)
  \/ ApplyFiltersSort
  \/ ApplyFiltersIssue
  \/ AnalyzeContentReturn
  \/ AdaptFiltered
  \/ AdaptPlatform(ProcAnswers)
  \/ AdaptReturn
SpecProcessor == InitProcessor /\ [][NextProcessor]_vars

\* --------------------------------------- SocialMediaController and the route
\* LinkedInPublisher.publish(adaptedContent) with the token of the
\* environment: checkRateLimit, getUserProfile (which checks the rate limit
\* again and asks for the profile), then the post. Everything thrown is
\* caught and returned as success: false.
LiResult(success, error) == [success |-> success, error |-> error, thread |-> <<>>]
linkedinPublish(limiter, t, token, profileOk, postOk) ==
  LET first == checkRateLimit(limiter, t)
      second == checkRateLimit(first.limiter, t)
  IN IF first.error # "none"
     THEN [limiter |-> first.limiter, result |-> LiResult(FALSE, "Post publication failed")]
     ELSE IF ~token
     THEN [limiter |-> first.limiter, result |-> LiResult(FALSE, "No access token provided")]
     ELSE IF second.error # "none" \/ ~profileOk
     THEN [limiter |-> second.limiter,
           result |-> LiResult(FALSE, "Cannot get user profile for posting")]
     ELSE IF ~postOk
     THEN [limiter |-> second.limiter, result |-> LiResult(FALSE, "Post publication failed")]
     ELSE [limiter |-> second.limiter, result |-> LiResult(TRUE, "undefined")]

\* The bodies posted to /content/publish: content, platforms, options.
CtlContents == {<<>>, <<"a","@","b",".","c","o">>}
CtlPlatforms == {<<>>, <<<<"t","w","i","t","t","e","r">>>>, <<<<"l","i","n","k","e","d","i","n">>, <<"t","w","i","t","t","e","r">>>>, <<<<"m","e","d","i","u","m">>>>}
HasPlatform(platforms, platform) == \E k \in 1..Len(platforms) : platforms[k] = platform
\* the route's validation of the body and of the access tokens
Accepted(content, platforms, tokens) ==
  /\ content # <<>> /\ content # JsNull
  /\ platforms # <<>>
  /\ HasPlatform(platforms, <<"l","i","n","k","e","d","i","n">>) => tokens.LINKEDIN_ACCESS_TOKEN
  /\ (HasPlatform(platforms, <<"t","w","i","t","t","e","r">>) \/ HasPlatform(platforms, <<"x">>))
       => tokens.TWITTER_ACCESS_TOKEN

\* POST /content/publish: a body that fails the validation is answered with
\* 400; otherwise publishContent starts and calls adaptContentForPlatforms.
PublishContent(contents) ==
  /\ ctl.pc \in {"idle", "responded"}
  /\ proc.pc \in {"idle", "returned", "threw"}
  /\ \E content \in contents, platforms \in CtlPlatforms, enable \in {"undefined", "false"} :
       IF Accepted(content, platforms, processEnv)
       THEN /\ ctl' = [NoCtl EXCEPT !.pc = "adapting", !.content = content,
                                    !.platforms = platforms]
            /\ Adapt(content, platforms, enable, "undefined")
       ELSE /\ ctl' = [NoCtl EXCEPT !.pc = "responded", !.content = content,
                                    !.platforms = platforms, !.status = 400]
            /\ UNCHANGED <<privacy, proc>>
  /\ tw' = IdleTw(tw.credentials)
  /\ wire' = <<>>
  /\ UNCHANGED <<now, twitterRateLimiter, linkedinRateLimiter, rateOutcome, split, contentCache,
                 processEnv>>

\* the result publishContent records when publish has returned publishResult
Marked(publishResult) == [success |-> TRUE, data |-> publishResult]
NotImplemented ==
  [success |-> FALSE, data |-> LiResult(FALSE, "Publisher not implemented")]

\* publishContent, one iteration of its loop up to the await of publish: a
\* platform without publisher is recorded as failed, the LinkedInPublisher
\* publishes, or the call of the TwitterPublisher starts.
PublishPlatform ==
  /\ ctl.pc = "publishing"
  /\ ctl.i <= Len(ctl.platforms)
  /\ LET platform == ctl.platforms[ctl.i]
         adapted == Deref(contentCache, proc.adaptedContent[platform])
     IN CASE platform = <<"t","w","i","t","t","e","r">> ->
               /\ tw' = [IdleTw(tw.credentials) EXCEPT
                           !.pc = "called", !.method = "publish", !.content = adapted.text,
                           !.options = [hashtags |-> Tags(adapted.hashtags), mentions |-> NoTags]]
               /\ wire' = <<>>
               /\ ctl' = [ctl EXCEPT !.pc = "awaiting"]
               /\ UNCHANGED linkedinRateLimiter
          [] platform = <<"l","i","n","k","e","d","i","n">> ->
               \E profileOk \in BOOLEAN, postOk \in BOOLEAN :
                 \E published \in {linkedinPublish(linkedinRateLimiter, now,
                                                   processEnv.LINKEDIN_ACCESS_TOKEN,
                                                   profileOk, postOk)} :
                   /\ linkedinRateLimiter' = published.limiter
                   /\ ctl' = [ctl EXCEPT !.i = @ + 1,
                                         !.results = (platform :> Marked(published.result)) @@ @]
                   /\ UNCHANGED <<tw, wire>>
          [] OTHER ->
               /\ ctl' = [ctl EXCEPT !.i = @ + 1, !.results = (platform :> NotImplemented) @@ @]
               /\ UNCHANGED <<tw, wire, linkedinRateLimiter>>
  /\ UNCHANGED <<privacy, now, twitterRateLimiter, rateOutcome, split, proc, contentCache,
                 processEnv>>

\* adaptContentForPlatforms has returned or thrown: the loop starts, or the
\* catch of publishContent rethrows and the route answers 500
PublishAdapted ==
  /\ ctl.pc = "adapting"
  /\ proc.pc \in {"returned", "threw"}
  /\ ctl' = IF proc.pc = "threw" THEN [ctl EXCEPT !.pc = "responded", !.status = 500]
            ELSE [ctl EXCEPT !.pc = "publishing"]
  /\ UNCHANGED <<privacy, publishers, proc, contentCache, processEnv>>

\* publish of the TwitterPublisher has returned
PublishAwaited ==
  /\ ctl.pc = "awaiting"
  /\ tw.pc = "returned"
  /\ ctl' = [ctl EXCEPT !.pc = "publishing", !.i = @ + 1,
                        !.results = (ctl.platforms[ctl.i] :> Marked(tw.result)) @@ @]
  /\ UNCHANGED <<privacy, publishers, proc, contentCache, processEnv>>

\* publishContent returns results; the route counts and answers
\* 'Published to successCount/totalCount platforms'
Successful(results) == {platform \in DOMAIN results : results[platform].success}
PublishRespond ==
  /\ ctl.pc = "publishing"
  /\ ctl.i > Len(ctl.platforms)
  /\ ctl' = [ctl EXCEPT !.pc = "responded", !.status = 200,
                        !.successCount = Cardinality(Successful(ctl.results)),
                        !.totalCount = Cardinality(DOMAIN ctl.results),
                        !.success = Cardinality(Successful(ctl.results)) > 0]
  /\ UNCHANGED <<privacy, publishers, proc, contentCache, processEnv>>

\* The server without OPENAI_API_KEY; the Twitter credentials and the access
\* tokens are set or not.
InitController ==
  /\ InitPrivacy(FALSE)
  /\ \E credentials \in BOOLEAN : InitPublishers(credentials)
  /\ \E tokens \in [{"LINKEDIN_ACCESS_TOKEN", "TWITTER_ACCESS_TOKEN"} -> BOOLEAN] :
       /\ tw.credentials => tokens.TWITTER_ACCESS_TOKEN
       /\ InitProcessors(tokens)
NextController ==
  \/ PublishContent(CtlContents)
  \/ FilterContent
  \/ DetectPatternBasedIssues
  \/ ApplyFiltersSort
  \/ ApplyFiltersIssue
  \/ AnalyzeContentReturn
  \/ AdaptFiltered
  \/ AdaptPlatform(ProcAnswers)
  \/ AdaptReturn
  \/ PublishAdapted
  \/ PublishPlatform
  \/ TwitterPublish
  \/ TwitterPostTweet
  \/ TwitterTweetResponse
  \/ PublishAwaited
  \/ PublishRespond
SpecController == InitController /\ [][NextController]_vars
IsString(v) == v # JsNull
Count(issues, level) == Cardinality({k \in 1..Len(issues) : issues[k].riskLevel = level})
\* the text of content at the span of an issue
SpanText(text, issue) == Substring(text, issue.position, issue.position + Len(issue.value))

\* C1: analyzeContent never throws: when content.match (content is no string)
\* or issue.value.length (a null value found in the text) threw, the call
\* returned an analysis with risk level 'high' and the error marker.
ThrewInDetection == analysis.originalContent = JsNull
ThrewInRedaction ==
  /\ idx <= Len(sortedIssues)
  /\ sortedIssues[idx].position >= 0
  /\ sortedIssues[idx].value = JsNull
C1_FailClosed ==
  (Enabled /\ (ThrewInDetection \/ ThrewInRedaction)) =>
    /\ result.privacyAnalysis.riskLevel = "high"
    /\ result.privacyAnalysis.error = "Privacy analysis failed"
C1_Witness ==
  /\ Enabled
  /\ ThrewInRedaction
  /\ result.privacyAnalysis.detectedIssues # <<>>
  /\ result.privacyAnalysis.riskLevel = "high"

\* C2: filterContent runs the analysis iff enablePrivacyFilter is not false and
\* (ENABLE_PRIVACY_FILTER is 'true' or forcePrivacyFilter is set); otherwise it
\* returns the content unchanged, privacyAnalysis null, privacyFilterEnabled false.
C2_Gate ==
  [][pc = "called" /\ request.method = "filterContent" /\ pc' # "called" =>
       IF /\ request.options.enablePrivacyFilter # "false"
          /\ (ENABLE_PRIVACY_FILTER = "true" \/ request.options.forcePrivacyFilter = "true")
       THEN pc' = "detect" /\ analysis' = NewAnalysis(request.content)
       ELSE /\ pc' = "returned"
            /\ result' = [filteredContent |-> request.content, privacyAnalysis |-> NullAnalysis,
                          privacyFilterEnabled |-> FALSE]]_vars
C2_Witness ==
  /\ pc = "returned"
  /\ request.method = "filterContent"
  /\ ~result.privacyFilterEnabled
  /\ request.options = [enablePrivacyFilter |-> "false", forcePrivacyFilter |-> "true"]
  /\ ENABLE_PRIVACY_FILTER = "true"
  /\ request.content = <<"a","@","b",".","c","o">>
  /\ result.filteredContent = request.content

\* C3: the risk level is 'high' if an issue is HIGH or more than one is MEDIUM,
\* 'medium' if none is HIGH and exactly one is MEDIUM, 'low' otherwise.
C3_RiskLevel ==
  Succeeded =>
    LET issues == result.privacyAnalysis.detectedIssues
    IN result.privacyAnalysis.riskLevel =
         IF Count(issues, "HIGH") >= 1 \/ Count(issues, "MEDIUM") > 1 THEN "high"
         ELSE IF Count(issues, "MEDIUM") = 1 THEN "medium"
         ELSE "low"
C3_Witness ==
  /\ Succeeded
  /\ Count(result.privacyAnalysis.detectedIssues, "HIGH") = 0
  /\ Count(result.privacyAnalysis.detectedIssues, "MEDIUM") = 2
  /\ result.privacyAnalysis.riskLevel = "high"

\* C4: when applyFilters applies an issue with position >= 0, the working text
\* at [position, position + value.length) still is the value of the issue.
C4_SpanIntact ==
  (/\ pc = "applying"
   /\ idx <= Len(sortedIssues)
   /\ sortedIssues[idx].position >= 0
   /\ IsString(sortedIssues[idx].value))
  => SpanText(filteredContent, sortedIssues[idx]) = sortedIssues[idx].value

\* C5: without the oracle, the filtered text of an analysis holds no match of
\* a category that the analysis redacted.
C5_Idempotent ==
  Succeeded =>
    LET first == result.privacyAnalysis.detectedIssues
        redacted == {first[k].type : k \in {j \in 1..Len(first) : first[j].position >= 0}}
        again == detectPatternBasedIssues(result.privacyAnalysis.filteredContent)
    IN \A k \in 1..Len(again) : again[k].type \notin redacted

\* C6: when the oracle's call failed or its response was unparsable or
\* malformed, the analysis does not fail and its issues, risk level and
\* filtered text are those of the pattern detection alone.
C6_PatternOnly ==
  (Enabled /\ IsString(request.content) /\ warned) =>
    /\ result.privacyAnalysis.error = NoError
    /\ result.privacyAnalysis.detectedIssues = patternIssues
    /\ result.privacyAnalysis.riskLevel = calculateRiskLevel(patternIssues)
    /\ result.privacyAnalysis.filteredContent = applyFilters(request.content, patternIssues)

\* C7 as claimed: every issue, found by a pattern or by the oracle, has a
\* position in the content at which the content reads the value.
C7_ValidOffset ==
  \A k \in 1..Len(analysis.detectedIssues) :
    LET issue == analysis.detectedIssues[k]
    IN IsString(issue.value) =>
         /\ issue.position >= 0
         /\ SpanText(analysis.originalContent, issue) = issue.value
\* C7 as amended: every issue of a pattern has such a position; an issue of
\* the oracle whose value is a string has such a position or, when the value
\* does not occur in the content, the position -1.
Occurs(text, value) ==
  \E p \in 0..(Len(text) - Len(value)) : SubSeq(text, p + 1, p + Len(value)) = value
C7_ValidOrMissing ==
  \A k \in 1..Len(analysis.detectedIssues) :
    LET issue == analysis.detectedIssues[k]
        valid == /\ issue.position >= 0
                 /\ issue.position + Len(issue.value) <= Len(analysis.originalContent)
                 /\ SpanText(analysis.originalContent, issue) = issue.value
    IN IsString(issue.value) =>
         IF issue.detectionMethod = "pattern" THEN valid
         ELSE IF Occurs(analysis.originalContent, issue.value) THEN valid
         ELSE issue.position = -1
C7_Witness ==
  /\ Succeeded
  /\ \E k \in 1..Len(analysis.detectedIssues) :
       /\ analysis.detectedIssues[k].detectionMethod = "ai"
       /\ IsString(analysis.detectedIssues[k].value)
       /\ analysis.detectedIssues[k].position = -1
  /\ \E k \in 1..Len(analysis.detectedIssues) :
       /\ analysis.detectedIssues[k].detectionMethod = "pattern"
       /\ analysis.detectedIssues[k].position > 0

\* C8: an issue with position -1 counts toward the risk level and the
\* suggestions, is not a key of the anonymization map, and the filtered text
\* is what applyFilters returns for the issues without it.
C8_SkippedNotApplied ==
  Succeeded =>
    LET a == result.privacyAnalysis
        issues == a.detectedIssues
        kept == SelectSeq(issues, LAMBDA issue : issue.position >= 0)
    IN /\ a.filteredContent = applyFilters(a.originalContent, kept)
       /\ \A k \in 1..Len(issues) :
            issues[k].position = -1 =>
              /\ \A m \in 1..Len(a.anonymizationMap) : a.anonymizationMap[m].key # issues[k].value
              /\ issues[k].riskLevel = "HIGH" => a.riskLevel = "high"
              /\ issues[k].type \in DOMAIN suggestionMap =>
                   \E m \in 1..Len(a.suggestions) : a.suggestions[m] = suggestionMap[issues[k].type]
C8_Witness ==
  /\ Succeeded
  /\ patternIssues = <<>>
  /\ Len(result.privacyAnalysis.detectedIssues) = 1
  /\ result.privacyAnalysis.detectedIssues[1].position = -1
  /\ result.privacyAnalysis.detectedIssues[1].type = "personalName"
  /\ result.privacyAnalysis.riskLevel = "high"
  /\ result.privacyAnalysis.originalContent # <<>>
  /\ result.privacyAnalysis.filteredContent = result.privacyAnalysis.originalContent
  /\ result.privacyAnalysis.anonymizationMap = <<>>

\* C9: when the spans of the issues with position >= 0 are pairwise disjoint,
\* the filtered text is the content with each span replaced by its placeholder
\* and every other character unchanged.
Disjoint(x, y) ==
  \/ x.position + Len(x.value) <= y.position
  \/ y.position + Len(y.value) <= x.position
\* the spans from left to right; at one position an empty span comes first,
\* and of two empty spans the one applied later
LeftToRight(kept) ==
  LET n == Len(kept)
      Before(j, k) ==
        \/ kept[j].position < kept[k].position
        \/ /\ kept[j].position = kept[k].position
           /\ \/ Len(kept[j].value) < Len(kept[k].value)
              \/ Len(kept[j].value) = Len(kept[k].value) /\ j > k
  IN [m \in 1..n |-> kept[CHOOSE k \in 1..n : Cardinality({j \in 1..n : Before(j, k)}) = m - 1]]
RECURSIVE Rebuild(_, _, _, _)
Rebuild(text, spans, k, from) ==
  IF k > Len(spans) THEN Substring(text, from, Len(text))
  ELSE Substring(text, from, spans[k].position) \o getReplacementText(spans[k])
       \o Rebuild(text, spans, k + 1, spans[k].position + Len(spans[k].value))
C9_DisjointSpans ==
  Succeeded =>
    LET a == result.privacyAnalysis
        kept == SelectSeq(a.detectedIssues, LAMBDA issue : issue.position >= 0)
    IN (\A j, k \in 1..Len(kept) : j # k => Disjoint(kept[j], kept[k]))
       => a.filteredContent = Rebuild(a.originalContent, LeftToRight(kept), 1, 0)

\* C10: with no oracle, a content on which no pattern matches gets no issue,
\* risk level 'low' and a filtered text equal to the content.
AllPatterns ==
  {P_email, P_phone, P_ssn, P_creditCard, P_bankAccount, P_routingNumber, P_currency, P_address,
   P_zipCode, P_coordinates, P_ipAddress, P_apiKey, companyPattern, locationPattern}
NoDetectorMatches(content) == \A p \in AllPatterns : MatchAll(p, content) = <<>>
C10_NoMatch ==
  (Enabled /\ ~openai /\ IsString(request.content) /\ NoDetectorMatches(request.content)) =>
    /\ result.privacyAnalysis.error = NoError
    /\ result.privacyAnalysis.detectedIssues = <<>>
    /\ result.privacyAnalysis.riskLevel = "low"
    /\ result.privacyAnalysis.filteredContent = request.content
    /\ result.filteredContent = request.content
C10_Witness ==
  /\ Enabled
  /\ ~openai
  /\ request.content = <<" "," ">>
  /\ result.privacyAnalysis.detectedIssues = <<>>
  /\ result.privacyAnalysis.riskLevel = "low"
  /\ result.filteredContent = <<" "," ">>

\* the running call has run analyzeContent and returned
Analysed == pc = "returned" /\ (request.method = "filterContent" => result.privacyFilterEnabled)
AnalysedOk == Analysed /\ analysis.error = NoError

\* C11: isContentSafe returns true exactly when the analysis it ran reports
\* risk 'low'; when the analysis failed internally it returns false.
C11_SafeIffLow ==
  pc = "returned" /\ request.method = "isContentSafe" =>
    /\ result \in BOOLEAN
    /\ result <=> (analysis.riskLevel = riskLevels.LOW)
    /\ result <=> (analyzeContent(request.content, openai, response).riskLevel = riskLevels.LOW)
    /\ analysis.error # NoError => ~result
C11_Witness ==
  /\ pc = "returned"
  /\ request.method = "isContentSafe"
  /\ analysis.error = "Privacy analysis failed"
  /\ result = FALSE

SameFindings(a, b) ==
  /\ Len(a.detectedIssues) = Len(b.detectedIssues)
  /\ \A k \in 1..Len(a.detectedIssues) :
       /\ a.detectedIssues[k].type = b.detectedIssues[k].type
       /\ a.detectedIssues[k].riskLevel = b.detectedIssues[k].riskLevel
\* both calls on the facade were getAnonymizationSuggestions and have returned
BothViews ==
  /\ pc = "returned" /\ request.method = "getAnonymizationSuggestions"
  /\ other.pc = "returned" /\ other.request.method = "getAnonymizationSuggestions"
C13_AdvicePerCategory ==
  AnalysedOk =>
    \A k \in 1..Len(analysis.detectedIssues) :
      LET type == analysis.detectedIssues[k].type
      IN /\ type \in DOMAIN suggestionMap
         /\ Cardinality({j \in 1..Len(analysis.suggestions) :
                           analysis.suggestions[j] = suggestionMap[type]}) = 1

\* C14: with two calls interleaved on one facade, what a call returns is what
\* the same method returns when analyzeContent runs alone on the call's content
\* with the answer the oracle gave to that call.
C14_Independent ==
  /\ Analysed =>
       result = ReturnTo(request.method, analyzeContent(request.content, openai, response))
  /\ pc = "returned" /\ ~Analysed =>
       result = [filteredContent |-> request.content, privacyAnalysis |-> NullAnalysis,
                 privacyFilterEnabled |-> FALSE]
C14_Witness ==
  /\ Analysed
  /\ oracleCalls = 1
  /\ other.pc = "apply"
  /\ other.oracleCalls = 1
  /\ other.request.content # request.content
  /\ other.response # response
  /\ Len(analysis.detectedIssues) = 2
  /\ Len(other.analysis.detectedIssues) = 2
  /\ analysis.anonymizationMap # <<>>

\* C15 as stated: a call of analyzeContent requests the oracle at most once:
\* once when it has returned and the facade has a client, never without one.
C15_OncePerCall ==
  /\ oracleCalls <= 1
  /\ pc \in {"called", "detect", "ai"} => oracleCalls = 0
  /\ Analysed => oracleCalls = (IF openai THEN 1 ELSE 0)
\* C15: a call of analyzeContent requests the oracle at most once, and not
\* again after the request failed: once when it has returned, the facade has
\* a client and pattern detection did not throw, never otherwise. The facade
\* keeps its client after a failed request: a later call requests again.
C15_OnceUnlessThrown ==
  /\ oracleCalls <= 1
  /\ pc \in {"called", "detect", "ai"} => oracleCalls = 0
  /\ pc = "apply" => oracleCalls = (IF openai THEN 1 ELSE 0)
  /\ Analysed => oracleCalls = (IF openai /\ analysis.originalContent # JsNull THEN 1 ELSE 0)
C15_Witness ==
  /\ Analysed
  /\ other = IdleFrame
  /\ failedBefore
  /\ ~warned
  /\ response.kind = "object"
  /\ oracleCalls = 1

\* the order in which applyFilters visits the issues j and k
AppliedAfter(issues, j, k) ==
  \/ issues[j].position < issues[k].position
  \/ issues[j].position = issues[k].position /\ j > k
MapOfApplied(a) ==
  LET issues == a.detectedIssues
      applied == {k \in 1..Len(issues) : issues[k].position >= 0}
      map == a.anonymizationMap
  IN /\ {map[j].key : j \in 1..Len(map)} = {issues[k].value : k \in applied}
     /\ \A i, j \in 1..Len(map) : map[i].key = map[j].key => i = j
     /\ \A j \in 1..Len(map) :
          \E k \in applied :
            /\ issues[k].value = map[j].key
            /\ \A l \in applied : issues[l].value = map[j].key => ~AppliedAfter(issues, l, k)
            /\ map[j].value = getReplacementText(issues[k])
Young(limiter, t) == {k \in 1..Len(limiter.requests) : t - limiter.requests[k] < limiter.timeWindow}
\* what a call of checkRateLimit at time t must do to its tracker
RateContract(before, after, error, t) ==
  /\ Cardinality(Young(before, t)) < before.maxRequests
       <=> /\ error = "none"
           /\ Len(after.requests) = Cardinality(Young(before, t)) + 1
           /\ after.requests[Len(after.requests)] = t
  /\ Cardinality(Young(before, t)) >= before.maxRequests
       <=> /\ error = "Rate limit exceeded"
           /\ Len(after.requests) <= Len(before.requests)
           /\ \A k \in 1..Len(after.requests) :
                \E j \in 1..Len(before.requests) : after.requests[k] = before.requests[j]
  /\ Len(after.requests) <= after.maxRequests
  /\ \A k \in 1..Len(after.requests) : t - after.requests[k] < after.timeWindow
  /\ \A k \in Young(before, t) : \E j \in 1..Len(after.requests) : after.requests[j] = before.requests[k]
RateCalled ==
  rateOutcome' # rateOutcome \/ twitterRateLimiter' # twitterRateLimiter
                             \/ linkedinRateLimiter' # linkedinRateLimiter
\* C16: a call of checkRateLimit of either publisher is admitted, and its
\* timestamp recorded, exactly when fewer than maxRequests recorded timestamps
\* are younger than the time window; otherwise it throws 'Rate limit
\* exceeded' and records nothing. After the call the tracker holds at most
\* maxRequests timestamps, all younger than the window.
C16_RateLimit ==
  [][RateCalled =>
       /\ rateOutcome'.publisher = "twitter" =>
            /\ RateContract(twitterRateLimiter[rateOutcome'.type],
                            twitterRateLimiter'[rateOutcome'.type], rateOutcome'.error, now)
            /\ \A type \in DOMAIN twitterRateLimiter \ {rateOutcome'.type} :
                 twitterRateLimiter'[type] = twitterRateLimiter[type]
            /\ linkedinRateLimiter' = linkedinRateLimiter
       /\ rateOutcome'.publisher = "linkedin" =>
            /\ RateContract(linkedinRateLimiter, linkedinRateLimiter', rateOutcome'.error, now)
            /\ twitterRateLimiter' = twitterRateLimiter
       /\ rateOutcome'.publisher # "none"]_vars
\* a call is refused on a tracker that has been full, emptied by the passing
\* of time, and filled again
C16_Witness ==
  /\ rateOutcome = [publisher |-> "linkedin", type |-> "none", error |-> "Rate limit exceeded"]
  /\ Len(linkedinRateLimiter.requests) = RateMaxRequests
  /\ linkedinRateLimiter.requests[1] >= RateTimeWindow
  /\ Len(twitterRateLimiter.media.requests) = 1

\* no limiter of the publisher holds maxRequests timestamps younger than its window
NotExhausted ==
  \A type \in DOMAIN twitterRateLimiter :
    Cardinality(Young(twitterRateLimiter[type], now)) < twitterRateLimiter[type].maxRequests
ProfileReturned == tw.pc = "returned" /\ tw.method \in {"getUserProfile", "validateToken"}
\* C17: getUserProfile on a publisher whose rate limit is not exhausted has
\* issued the users/me request, and when that request succeeded it returns
\* success = true, and validateToken valid = true.
C17_ProfileRequested ==
  ProfileReturned /\ NotExhausted =>
    \E k \in 1..Len(wire) :
      /\ wire[k].url = "users/me"
      /\ wire[k].response = "profile" =>
           tw.result.success /\ (tw.method = "validateToken" => tw.result.valid)

Publishing == tw.method = "publish" /\ tw.pc \in {"post", "await", "returned"}
\* C18: the tweets of a thread are posted one at a time in thread order;
\* tweet k > 1 is sent only after tweet k-1 succeeded and replies to the id
\* returned for tweet k-1; the first tweet has no reply reference and only it
\* carries media; the returned thread lists the n tweets in that order.
C18_ThreadOrder ==
  Publishing =>
    /\ Len(wire) <= Len(tw.tweets)
    /\ \A k \in 1..Len(wire) : wire[k].url = "tweets" /\ wire[k].data.text = tw.tweets[k]
    /\ \A k \in 1..(Len(wire) - 1) : wire[k].response \in TweetIds
    /\ \A k \in 2..Len(wire) : wire[k].data.reply = wire[k - 1].response /\ wire[k].data.media = <<>>
    /\ Len(wire) >= 1 => wire[1].data.reply = "none" /\ wire[1].data.media = tw.mediaIds
    /\ tw.pc = "post" => Len(wire) = tw.i /\ (Len(wire) >= 1 => wire[Len(wire)].response \in TweetIds)
    /\ tw.pc = "await" => Len(wire) = tw.i + 1 /\ wire[Len(wire)].response = "pending"
    /\ tw.pc = "returned" /\ tw.result.success =>
         /\ Len(wire) = Len(tw.tweets)
         /\ Len(tw.result.thread) = Len(tw.tweets)
         /\ \A k \in 1..Len(tw.tweets) :
              /\ tw.result.thread[k].text = tw.tweets[k]
              /\ tw.result.thread[k].tweetId = wire[k].response
              /\ tw.result.thread[k].threadPosition = k
              /\ tw.result.thread[k].threadTotal = Len(tw.tweets)
\* a thread of three tweets with media has been published
C18_Witness ==
  /\ Publishing
  /\ tw.pc = "returned"
  /\ tw.result.success
  /\ Len(tw.result.thread) = 3
  /\ tw.mediaIds # <<>>
  /\ tw.result.thread[1].tweetId # tw.result.thread[2].tweetId
  /\ wire[3].data.reply = tw.result.thread[2].tweetId

EndsWith(s, suffix) ==
  Len(s) >= Len(suffix) /\ SubSeq(s, Len(s) - Len(suffix) + 1, Len(s)) = suffix
\* what every returned list of tweets satisfies
SplitBounded ==
  /\ Len(split.tweets) <= maxThreadTweets
  /\ \A k \in 1..Len(split.tweets) : Len(split.tweets[k]) <= maxTweetLength
  /\ Len(split.tweets) > 1 =>
       \A k \in 1..Len(split.tweets) :
         EndsWith(split.tweets[k], NumStr(k) \o <<"/">> \o NumStr(Len(split.tweets)))
SplitTerminates == (split.pc = "loop") ~> (split.pc = "done")
\* C19: splitIntoThreads terminates and returns at most maxThreadTweets
\* tweets of at most 280 characters each, tweet i ending with 'i/n' when there
\* is more than one, and content of at most 280 characters is returned as a
\* single tweet without numbering.
C19_FitsInOne ==
  /\ SplitTerminates
  /\ [](split.pc = "done" =>
          /\ SplitBounded
          /\ Len(split.content) <= maxTweetLength => split.tweets = <<Trim(split.content)>>)
\* What the function does: the same, with the single tweet only for content
\* that is not empty and has at most availableLength characters.
SplitContract ==
  /\ SplitTerminates
  /\ [](split.pc = "done" =>
          /\ SplitBounded
          /\ Len(split.content) \in 1..availableLength => split.tweets = <<Trim(split.content)>>)
\* a thread of maxThreadTweets numbered tweets has been returned
SplitFullThread ==
  /\ split.pc = "done"
  /\ Len(split.tweets) = maxThreadTweets
  /\ Len(split.remainingContent) > 0
  /\ EndsWith(split.tweets[10], <<" ","1","0","/","2","5">>)


\* C21: the position of every issue is the index of the first occurrence of
\* its value (as a string) in the content, -1 only when the value does not
\* occur, which never happens for an issue of a pattern; so two issues with
\* the same value have the same position.
ReadsAt(text, value, p) ==
  p >= 0 /\ p + Len(value) <= Len(text) /\ SubSeq(text, p + 1, p + Len(value)) = value
C21_FirstOccurrence ==
  IsString(analysis.originalContent) =>
    /\ \A k \in 1..Len(analysis.detectedIssues) :
         LET issue == analysis.detectedIssues[k]
             value == ToStr(issue.value)
         IN /\ issue.position >= -1
            /\ issue.position = -1 =>
                 /\ issue.detectionMethod = "ai"
                 /\ \A p \in 0..Len(analysis.originalContent) :
                      ~ReadsAt(analysis.originalContent, value, p)
            /\ issue.position >= 0 =>
                 /\ ReadsAt(analysis.originalContent, value, issue.position)
                 /\ \A p \in 0..(issue.position - 1) : ~ReadsAt(analysis.originalContent, value, p)
    /\ \A j, k \in 1..Len(analysis.detectedIssues) :
         analysis.detectedIssues[j].value = analysis.detectedIssues[k].value =>
           analysis.detectedIssues[j].position = analysis.detectedIssues[k].position
\* the amount matched twice in "$5$5" has position 0 both times, and a value
\* of the oracle that is not in the content has position -1
C21_Witness ==
  /\ AnalysedOk
  /\ analysis.originalContent = <<"$","5","$","5">>
  /\ Len(analysis.detectedIssues) = 3
  /\ analysis.detectedIssues[1].value = <<"$","5">>
  /\ analysis.detectedIssues[2].value = <<"$","5">>
  /\ analysis.detectedIssues[2].position = 0
  /\ analysis.detectedIssues[3].detectionMethod = "ai"
  /\ analysis.detectedIssues[3].position = -1


\* C22: the suggestions of a successful analysis hold no duplicate; first
\* comes the advice of the types found, in the order in which the types first
\* appear among the issues, then the two HIGH warnings iff the risk level is
\* 'high', the two MEDIUM warnings iff it is 'medium', and none when 'low'.
FirstOfType(issues, type) ==
  CHOOSE k \in 1..Len(issues) : issues[k].type = type /\ \A j \in 1..(k - 1) : issues[j].type # type
AdvisedTypes(issues) ==
  {issues[k].type : k \in 1..Len(issues)} \cap DOMAIN suggestionMap
WarningsOf(riskLevel) ==
  CASE riskLevel = "high" -> HighWarnings
    [] riskLevel = "medium" -> MediumWarnings
    [] riskLevel = "low" -> <<>>
C22_SuggestionsOrdered ==
  AnalysedOk =>
    LET issues == analysis.detectedIssues
        all == analysis.suggestions
        warnings == WarningsOf(analysis.riskLevel)
        n == Len(all) - Len(warnings)
    IN /\ \A j, k \in 1..Len(all) : j # k => all[j] # all[k]
       /\ n = Cardinality(AdvisedTypes(issues))
       /\ SubSeq(all, n + 1, Len(all)) = warnings
       /\ \A k \in 1..n :
            \E type \in AdvisedTypes(issues) :
              /\ all[k] = suggestionMap[type]
              /\ Cardinality({t \in AdvisedTypes(issues) :
                                FirstOfType(issues, t) < FirstOfType(issues, type)}) = k - 1
\* a company name found by the pattern and then a personal name by the oracle:
\* their advice comes in that order, not in the order of the table
C22_Witness ==
  /\ AnalysedOk
  /\ Len(analysis.detectedIssues) = 3
  /\ analysis.detectedIssues[2].type = "companyName"
  /\ analysis.detectedIssues[3].type = "personalName"
  /\ analysis.suggestions =
       <<suggestionMap.companyName, suggestionMap.personalName>> \o HighWarnings


\* C23: the issues of an analysis are in detection order, those of the
\* patterns in the order of the detectors, then those of the oracle in the
\* order of its buckets; applyFilters, which sorts by position, does not
\* reorder, remove or change an issue.
DetectorOrder ==
  <<"email", "phone", "ssn", "creditCard", "bankAccount", "routingNumber", "currency", "address",
    "zipCode", "coordinates", "ipAddress", "apiKey", "companyName", "locationContext">>
OracleOrder == <<"personalName", "companyName", "financialInfo", "location", "confidentialInfo">>
PlaceIn(order, type) == CHOOSE n \in 1..Len(order) : order[n] = type
DetectionRank(issue) ==
  IF issue.detectionMethod = "pattern" THEN PlaceIn(DetectorOrder, issue.type)
  ELSE Len(DetectorOrder) + PlaceIn(OracleOrder, issue.type)
InDetectionOrder(issues) ==
  /\ \A k \in 1..Len(issues) :
       \/ issues[k].detectionMethod = "pattern" /\ issues[k].type \in Range(DetectorOrder)
       \/ issues[k].detectionMethod = "ai" /\ issues[k].type \in Range(OracleOrder)
  /\ \A j, k \in 1..Len(issues) : j < k => DetectionRank(issues[j]) <= DetectionRank(issues[k])
C23_DetectionOrder ==
  /\ [](InDetectionOrder(analysis.detectedIssues))
  /\ [][(pc = "apply" \/ pc = "applying") =>
         analysis'.detectedIssues = analysis.detectedIssues]_vars
\* "$5x Co": the amount at 0 before the company name at 2, then a name of the
\* oracle; the sorted copy has another order
C23_Witness ==
  /\ AnalysedOk
  /\ Len(analysis.detectedIssues) = 3
  /\ analysis.detectedIssues[1].type = "currency"
  /\ analysis.detectedIssues[2].type = "companyName"
  /\ analysis.detectedIssues[3].detectionMethod = "ai"
  /\ analysis.detectedIssues[1].position < analysis.detectedIssues[2].position
  /\ sortedIssues # analysis.detectedIssues
  /\ analysis.filteredContent # analysis.originalContent


\* C24: the severity of every issue is the fixed severity of its category, its
\* detection method is 'pattern' or 'ai' after the detector that pushed it,
\* and redaction, risk calculation and suggestions change neither.
PatternSeverity ==
  [email |-> "HIGH", phone |-> "HIGH", ssn |-> "HIGH", creditCard |-> "HIGH",
   bankAccount |-> "HIGH", routingNumber |-> "HIGH", coordinates |-> "HIGH", apiKey |-> "HIGH",
   currency |-> "MEDIUM", address |-> "MEDIUM", zipCode |-> "MEDIUM", ipAddress |-> "MEDIUM",
   companyName |-> "MEDIUM", locationContext |-> "MEDIUM"]
OracleSeverity ==
  [personalName |-> "HIGH", companyName |-> "MEDIUM", financialInfo |-> "HIGH",
   location |-> "MEDIUM", confidentialInfo |-> "HIGH"]
SeverityFixed(issues, fromPatterns) ==
  \A k \in 1..Len(issues) :
    IF k <= fromPatterns
    THEN /\ issues[k].detectionMethod = "pattern"
         /\ issues[k].type \in DOMAIN PatternSeverity
         /\ issues[k].riskLevel = PatternSeverity[issues[k].type]
    ELSE /\ issues[k].detectionMethod = "ai"
         /\ issues[k].type \in DOMAIN OracleSeverity
         /\ issues[k].riskLevel = OracleSeverity[issues[k].type]
C24_SeverityFixed ==
  /\ [](SeverityFixed(analysis.detectedIssues, Len(patternIssues)))
  /\ [][(pc = "apply" \/ pc = "applying") =>
          /\ Len(analysis'.detectedIssues) = Len(analysis.detectedIssues)
          /\ \A k \in 1..Len(analysis.detectedIssues) :
               /\ analysis'.detectedIssues[k].riskLevel = analysis.detectedIssues[k].riskLevel
               /\ analysis'.detectedIssues[k].detectionMethod =
                    analysis.detectedIssues[k].detectionMethod]_vars
\* an email of the pattern (HIGH) and a company name of the oracle (MEDIUM)
\* in an analysis of risk level 'high'
C24_Witness ==
  /\ AnalysedOk
  /\ analysis.riskLevel = "high"
  /\ Len(patternIssues) = 1
  /\ Len(analysis.detectedIssues) = 2
  /\ analysis.detectedIssues[1].type = "email"
  /\ analysis.detectedIssues[1].riskLevel = "HIGH"
  /\ analysis.detectedIssues[2].type = "companyName"
  /\ analysis.detectedIssues[2].detectionMethod = "ai"
  /\ analysis.detectedIssues[2].riskLevel = "MEDIUM"
  /\ analysis.detectedIssues[2].position >= 0


\* C25: the value of every issue of the company name detector is one word
\* that begins with an uppercase letter, whitespace, and one of the company
\* indicators; a lowercase word before an indicator gives no such issue.
CompanyShaped(value) ==
  \E n \in 1..Len(value), m \in 1..Len(value) :
    /\ n < m
    /\ value[1] \in Upper
    /\ \A k \in 1..n : value[k] \in WordCh
    /\ \A k \in (n + 1)..m : value[k] \in SpaceCh
    /\ SubSeq(value, m + 1, Len(value)) \in Range(companyIndicators)
C25_CapitalizedCompany ==
  \A k \in 1..Len(analysis.detectedIssues) :
    LET issue == analysis.detectedIssues[k]
    IN (issue.type = "companyName" /\ issue.detectionMethod = "pattern") => CompanyShaped(issue.value)


\* C27: when publish returns success = false, no tweet of the call has been
\* posted, or else the result reports the tweets that were posted.
Posted == SelectSeq(wire, LAMBDA sent : sent.url = "tweets" /\ sent.response \in TweetIds)
C27_AllOrNothing ==
  (tw.pc = "returned" /\ tw.method = "publish" /\ ~tw.result.success) =>
    \/ Posted = <<>>
    \/ /\ Len(tw.result.thread) = Len(Posted)
       /\ \A k \in 1..Len(Posted) : tw.result.thread[k].tweetId = Posted[k].response


\* C28: when analyzeContent fails after detection has started, the degraded
\* result keeps the findings detected so far, has risk HIGH, an error marker,
\* no suggestions and the original text as filtered text; filterContent with
\* the filter enabled returns that text with privacyFilterEnabled true.
FailedAfterDetection ==
  pc = "returned" /\ analysis.error # NoError /\ analysis.originalContent # JsNull
Degraded(a) ==
  /\ a.riskLevel = riskLevels.HIGH
  /\ a.error = "Privacy analysis failed"
  /\ a.suggestions = <<>>
  /\ a.filteredContent = a.originalContent
C28_DegradedResult ==
  /\ [](FailedAfterDetection =>
          /\ Degraded(analysis)
          /\ analysis.originalContent = request.content
          /\ request.method = "filterContent" =>
               /\ result.filteredContent = request.content
               /\ result.privacyAnalysis = analysis
               /\ result.privacyFilterEnabled)
  /\ [][(pc # "returned" /\ FailedAfterDetection') =>
          analysis'.detectedIssues = analysis.detectedIssues]_vars
C28_Witness ==
  /\ FailedAfterDetection
  /\ request.method = "filterContent"
  /\ Len(analysis.detectedIssues) > 1
  /\ filteredContent # request.content


\* C29: in adaptContentForPlatforms the privacy filter runs once, before any
\* platform is adapted, and every adapter (the oracle, basicAdaptContent on
\* the basic path and in the catch, the cache) is given the filteredContent
\* the filter returned.
Adapting == proc.pc \in {"platforms", "returned", "threw"}
CacheHits == SelectSeq(proc.adapted, LAMBDA call : call.adapter = "contentCache")
SameRequest ==
  \A k \in 1..Len(CacheHits) :
    /\ CacheHits[k].madeFor.content = CacheHits[k].content
    /\ CacheHits[k].madeFor.category = proc.category
    /\ \E i \in 1..Len(proc.platforms) : proc.platforms[i] = CacheHits[k].madeFor.platform
NoForeignData ==
  (proc.pc = "returned" /\ ~result.privacyFilterEnabled) =>
    \A platform \in DOMAIN proc.adaptedContent :
      ~Deref(contentCache, proc.adaptedContent[platform]).privacyInfo.given
C30_CacheOwnEntry == SameRequest /\ NoForeignData


\* C26: publishContent marks results[platform].success true only if the
\* platform's publisher reported success, and the route's summary counts only
\* those platforms as published.
Reported(results) == {platform \in DOMAIN results : results[platform].data.success}
C26_SuccessAsReported ==
  /\ \A platform \in DOMAIN ctl.results :
       ctl.results[platform].success => ctl.results[platform].data.success
  /\ (ctl.pc = "responded" /\ ctl.status = 200) =>
       ctl.successCount = Cardinality(Reported(ctl.results))
====
